---- MODULE Spec2Model ----
(***************************************************************************)
(* A model of the b9 virtual machine core: the operand stack, the bytecode *)
(* interpreter loop, the function-invocation bridge and VirtualMachine::run*)
(* as they stand in the three revisions of the core kept in                *)
(* src/b9/core.cpp (lines 1-494, 496-958 and 960-1351).                    *)
(*                                                                         *)
(* One action is one step of the running program: entering run, one        *)
(* interpreted instruction, one native call, a return to the caller, the   *)
(* exit of run.  The C++ call stack of interpret()/interpretFunction() is  *)
(* the sequence `frames`; the operand stack is `mem` with pointer `sp`.    *)
(***************************************************************************)
EXTENDS Integers, Sequences, FiniteSets, TLC

VARIABLES
    build,      \* which revision of the core is built, and whether NDEBUG is set
    cfg,        \* Config: jit, passParam
    compiled,   \* VirtualMachine::compiledFunctions_
    sp,         \* stackPointer_ as an index into stack_ (0 = stack base)
    mem,        \* stack_: the cells holding a non-zero value (all others read 0)
    pc,         \* programCounter_: instructions executed since the last reset
    frames,     \* activations of the interpreter, innermost last
    status,     \* "idle" (in the embedder), "running" (inside run), "crashed"
    ret,        \* a value on its way from a callee to its caller
    result,     \* what the most recent call of run gave the embedder
    runs,       \* number of run calls made so far
    last,       \* the instruction executed by the previous step
    junk,       \* what the memory around stack_ holds
    tool        \* the component exercised on its own, outside a run of the VM

\* the state of the virtual machine and its execution context
vm == <<build, cfg, compiled, sp, mem, pc, frames, status, ret, result, runs, last, junk>>

vars == <<vm, tool>>

----------------------------------------------------------------------------
(* Bounds of the model *)

MaxRuns == 2        \* calls of run explored on one VM
MaxDepth == 3       \* nested interpreter activations explored
MaxPC == 150        \* instructions explored between two resets
MaxGenerations == 2 \* calls of generateAllCode explored on one VM
MaxWrites == 3      \* slot writes explored on one object
MaxSum == 10        \* largest n of sumto(n) explored
MaxLifeCalls == 2   \* calls of initialize and shutdown explored on one VM
MaxIndex == 6       \* highest instruction index of a compiled jump or its label
MaxParams == 2      \* parameters of a compiled function declaration
MaxStatements == 2  \* statements in the body of a compiled function declaration
MaxSets == 2        \* calls of setJitAddress explored on one VM

(* Program constants *)

Capacity == 1000    \* StackElement stack_[1000]
MaxJitArgs2 == 7    \* highest case of the switch in callJitFunctionWithPassParam
MaxJitArgs3 == 3    \* highest case of the switch in callJitFunction / interpret (first revision)
MaxInt == 2147483647  \* the largest std::int32_t
BYTECODE_SHIFT == 24         \* Instruction::BYTECODE_SHIFT
PARAMETER_MASK == 16777215   \* Instruction::PARAMETER_MASK, 0x00FF'FFFF

Garbage == {0, 77}  \* what the memory around stack_ may hold
NativeResults == {0, 42}  \* what an opaque native entry may return

----------------------------------------------------------------------------
(* Instructions and the module under test *)

Instruction(bc, p) == [op |-> bc, p |-> p]

END_SECTION == Instruction("END_SECTION", 0)

\* the opcodes of enum class ByteCode
ByteCodes ==
    {"END_SECTION", "FUNCTION_CALL", "FUNCTION_RETURN", "PRIMITIVE_CALL", "DUPLICATE",
     "DROP", "PUSH_FROM_VAR", "POP_INTO_VAR", "ADD", "SUB", "MUL", "DIV",
     "INT_PUSH_CONSTANT", "NOT", "JMP", "JMP_EQ_EQ", "JMP_EQ_NEQ", "JMP_EQ_GT",
     "JMP_EQ_GE", "JMP_EQ_LT", "JMP_EQ_LE", "STR_PUSH_CONSTANT", "NEW_OBJECT",
     "PUSH_FROM_OBJECT", "POP_INTO_OBJECT", "CALL_INDIRECT", "SYSTEM_COLLECT"}

JmpEqOps == {"JMP_EQ_EQ", "JMP_EQ_NEQ", "JMP_EQ_GT", "JMP_EQ_GE", "JMP_EQ_LT", "JMP_EQ_LE"}

FunctionSpec(name, nargs, nregs, code) ==
    [name |-> name, nargs |-> nargs, nregs |-> nregs, instructions |-> code]

\* one block of cmp6: the comparison `bc` of the two arguments, branching over
\* the four instructions that add `weight` to the local at offset 2
CmpBlock(bc, weight) ==
    << Instruction("PUSH_FROM_VAR", 0), Instruction("PUSH_FROM_VAR", 1),
       Instruction(bc, 4),
       Instruction("PUSH_FROM_VAR", 2), Instruction("INT_PUSH_CONSTANT", weight),
       Instruction("ADD", 0), Instruction("POP_INTO_VAR", 2) >>

BaseFunctions ==
    << \* 0: add23() = 2 + 3
       FunctionSpec("add23", 0, 0,
        << Instruction("INT_PUSH_CONSTANT", 2), Instruction("INT_PUSH_CONSTANT", 3),
           Instruction("ADD", 0), Instruction("FUNCTION_RETURN", 0), END_SECTION >>),
       \* 1: inc(x) = x + 1, computed into a local (offset 1)
       FunctionSpec("inc", 1, 1,
        << Instruction("PUSH_FROM_VAR", 0), Instruction("INT_PUSH_CONSTANT", 1),
           Instruction("ADD", 0), Instruction("POP_INTO_VAR", 1),
           Instruction("PUSH_FROM_VAR", 1), Instruction("FUNCTION_RETURN", 0),
           END_SECTION >>),
       \* 2: callinc() = 9 - inc(4), with a local holding the 9
       FunctionSpec("callinc", 0, 1,
        << Instruction("INT_PUSH_CONSTANT", 9), Instruction("POP_INTO_VAR", 0),
           Instruction("PUSH_FROM_VAR", 0),
           Instruction("INT_PUSH_CONSTANT", 4), Instruction("FUNCTION_CALL", 1),
           Instruction("SUB", 0), Instruction("FUNCTION_RETURN", 0), END_SECTION >>),
       \* 3: sumto(n) = 1 + ... + n, locals i (offset 1) and s (offset 2)
       FunctionSpec("sumto", 1, 2,
        << Instruction("PUSH_FROM_VAR", 1), Instruction("PUSH_FROM_VAR", 0),
           Instruction("JMP_EQ_LT", 1), Instruction("JMP", 9),
           Instruction("PUSH_FROM_VAR", 1), Instruction("INT_PUSH_CONSTANT", 1),
           Instruction("ADD", 0), Instruction("POP_INTO_VAR", 1),
           Instruction("PUSH_FROM_VAR", 2), Instruction("PUSH_FROM_VAR", 1),
           Instruction("ADD", 0), Instruction("POP_INTO_VAR", 2),
           Instruction("JMP", -13),
           Instruction("PUSH_FROM_VAR", 2), Instruction("FUNCTION_RETURN", 0),
           END_SECTION >>),
       \* 4: readlocal() returns its only local without writing it
       FunctionSpec("readlocal", 0, 1,
        << Instruction("PUSH_FROM_VAR", 0), Instruction("FUNCTION_RETURN", 0),
           END_SECTION >>),
       \* 5: under() drops a value it never pushed
       FunctionSpec("under", 0, 0,
        << Instruction("DROP", 0), Instruction("INT_PUSH_CONSTANT", 1),
           Instruction("FUNCTION_RETURN", 0), END_SECTION >>),
       \* 6: callunder() = under() called with one value on the caller's stack
       FunctionSpec("callunder", 0, 0,
        << Instruction("INT_PUSH_CONSTANT", 9), Instruction("FUNCTION_CALL", 5),
           Instruction("FUNCTION_RETURN", 0), END_SECTION >>),
       \* 7: recur() calls itself, with 400 registers
       FunctionSpec("recur", 0, 400,
        << Instruction("FUNCTION_CALL", 7), Instruction("FUNCTION_RETURN", 0),
           END_SECTION >>),
       \* 8: fall() runs into END_SECTION
       FunctionSpec("fall", 0, 0,
        << Instruction("INT_PUSH_CONSTANT", 6), END_SECTION >>),
       \* 9: div(a, b) = a / b
       FunctionSpec("div", 2, 0,
        << Instruction("PUSH_FROM_VAR", 0), Instruction("PUSH_FROM_VAR", 1),
           Instruction("DIV", 0), Instruction("FUNCTION_RETURN", 0), END_SECTION >>),
       \* 10: many(a1..a8) returns its first stack argument
       FunctionSpec("many", 8, 0,
        << Instruction("PUSH_FROM_VAR", 0), Instruction("FUNCTION_RETURN", 0),
           END_SECTION >>),
       \* 11: skip() jumps over one instruction and back over another
       FunctionSpec("skip", 0, 0,
        << Instruction("JMP", 2), Instruction("INT_PUSH_CONSTANT", 1),
           Instruction("FUNCTION_RETURN", 0), Instruction("INT_PUSH_CONSTANT", 2),
           Instruction("JMP", -3), END_SECTION >>),
       \* 12: callfall() = fall() called from another function
       FunctionSpec("callfall", 0, 0,
        << Instruction("INT_PUSH_CONSTANT", 3), Instruction("FUNCTION_CALL", 8),
           Instruction("FUNCTION_RETURN", 0), END_SECTION >> )
    >>

\* 13: cmp6(a, b) makes every comparison of a (offset 0) with b (offset 1) and
\* returns the sum of the weights of those that did not branch
Cmp6 ==
    FunctionSpec("cmp6", 2, 1,
        CmpBlock("JMP_EQ_EQ", 1) \o CmpBlock("JMP_EQ_NEQ", 2) \o CmpBlock("JMP_EQ_GT", 4)
          \o CmpBlock("JMP_EQ_GE", 8) \o CmpBlock("JMP_EQ_LT", 16) \o CmpBlock("JMP_EQ_LE", 32)
          \o << Instruction("PUSH_FROM_VAR", 2), Instruction("FUNCTION_RETURN", 0),
                END_SECTION >>)

\* 14: ops() = !!(-3) + !(3 * 3), the 3 doubled by DUPLICATE
Ops ==
    FunctionSpec("ops", 0, 0,
        << Instruction("INT_PUSH_CONSTANT", -3), Instruction("NOT", 0),
           Instruction("NOT", 0),
           Instruction("INT_PUSH_CONSTANT", 3), Instruction("DUPLICATE", 0),
           Instruction("MUL", 0), Instruction("NOT", 0), Instruction("ADD", 0),
           Instruction("FUNCTION_RETURN", 0), END_SECTION >>)

\* 15: mul(a, b) = a * b
Mul ==
    FunctionSpec("mul", 2, 0,
        << Instruction("PUSH_FROM_VAR", 0), Instruction("PUSH_FROM_VAR", 1),
           Instruction("MUL", 0), Instruction("FUNCTION_RETURN", 0), END_SECTION >>)

\* 16: bogus() holds an instruction whose opcode byte, 0x7f, is no ByteCode
Bogus ==
    FunctionSpec("bogus", 0, 0,
        << Instruction("INT_PUSH_CONSTANT", 7), Instruction("0x7f", 0),
           Instruction("FUNCTION_RETURN", 0), END_SECTION >>)

\* 17: f() = g(41), g being inc
CallG ==
    FunctionSpec("f", 0, 0,
        << Instruction("INT_PUSH_CONSTANT", 41), Instruction("FUNCTION_CALL", 1),
           Instruction("FUNCTION_RETURN", 0), END_SECTION >>)

\* 18: hello() prints a string and a number and returns 7; the constants 5
\* and 6 stand for the string's key and the number
Hello ==
    FunctionSpec("hello", 0, 0,
        << Instruction("INT_PUSH_CONSTANT", 5), Instruction("PRIMITIVE_CALL", 0),
           Instruction("DROP", 0),
           Instruction("INT_PUSH_CONSTANT", 6), Instruction("PRIMITIVE_CALL", 1),
           Instruction("DROP", 0),
           Instruction("INT_PUSH_CONSTANT", 7), Instruction("FUNCTION_RETURN", 0),
           END_SECTION >>)

\* The module under test; the index of a function is its position, from 0.
Functions == BaseFunctions \o << Cmp6, Ops, Mul, Bogus, CallG, Hello >>

\* the module's primitive bindings, by primitive code
primitives == << "print_string", "print_number", "print_stack" >>

\* The calls run(functionIndex, usrArgs) the embedder makes.
Calls ==
    { <<0, <<>>>>, <<1, <<2>>>>, <<2, <<>>>>, <<3, <<2>>>>, <<4, <<>>>>, <<5, <<>>>>,
      <<6, <<>>>>, <<7, <<>>>>, <<12, <<>>>>, <<9, <<0, 5>>>>, <<9, <<2, 5>>>>,
      <<10, <<1, 2, 3, 4, 5, 6, 7, 8>>>>, <<11, <<>>>>,
      <<13, <<1, 2>>>>, <<13, <<2, 1>>>>, <<13, <<2, 2>>>>, <<14, <<>>>>,
      <<1, <<MaxInt>>>>, <<15, <<65536, 65536>>>>, <<15, <<MaxInt, MaxInt>>>>,
      <<15, <<-3, 5>>>>, <<16, <<>>>>, <<17, <<>>>>,
      <<1, <<>>>>, <<2, <<2>>>> }

----------------------------------------------------------------------------
(* The operand stack *)

InStack(k) == 0 <= k /\ k < Capacity

\* stack_[k]; the constructor zero-fills the array, so a cell never written reads 0
Read(m, k) == IF k \in DOMAIN m THEN m[k] ELSE 0

\* what `*p` may yield for p = stack_ + k: the cell, or anything when p is outside the array
ReadChoices(m, k) == IF InStack(k) THEN {Read(m, k)} ELSE {junk}

\* stack_[k] = v; a store outside the array lands in memory the model does not track
Write(m, k, v) ==
    IF ~InStack(k) THEN m
    ELSE IF v = 0 THEN [i \in (DOMAIN m) \ {k} |-> m[i]]
    ELSE [i \in (DOMAIN m) \cup {k} |-> IF i = k THEN v ELSE m[i]]

\* OperandStack::pushn: n zero-filled cells starting at s
pushn(m, s, n) == [i \in {j \in DOMAIN m : j < s \/ j >= s + n} |-> m[i]]

\* the cells a function's nregs locals get on entry
ReserveRegs(m, s, n) == IF build.rev = 3 THEN pushn(m, s, n) ELSE m

\* a loop over usrArgs that pushes them first to last
RECURSIVE PushArgsInOrder(_, _, _, _)
PushArgsInOrder(m, s, a, k) ==
    IF k = 0 THEN m ELSE Write(PushArgsInOrder(m, s, a, k - 1), s + k - 1, a[k])

\* run's loop over usrArgs: usrArgs[k] is pushed first, usrArgs[1] last
RECURSIVE PushArgs(_, _, _, _)
PushArgs(m, s, a, k) ==
    IF k = 0 THEN m ELSE PushArgs(Write(m, s, a[k]), s + 1, a, k - 1)

----------------------------------------------------------------------------
(* The virtual machine *)

FunctionCount == Len(Functions)

getFunction(index) == Functions[index + 1]

getJitAddress(functionIndex) ==
    IF functionIndex >= Len(compiled) THEN "null" ELSE compiled[functionIndex + 1]

NoRet ==
    [has |-> FALSE, v |-> 0, fn |-> 0, args |-> 0, entry |-> 0, how |-> "none",
     params |-> <<>>]

NoLast == [op |-> "none", p |-> 0, fn |-> 0, ip |-> 0, sp |-> 0, args |-> 0, usr |-> <<>>]

NoResult == [kind |-> "none", v |-> 0]

NoTool == [kind |-> "none"]

Init ==
    /\ build \in [rev : {1, 2, 3}, ndebug : BOOLEAN]
    /\ cfg \in {c \in [jit : BOOLEAN, passParam : BOOLEAN] : c.passParam => c.jit}
    /\ compiled = <<>>
    /\ sp = 0
    /\ mem = <<>>
    /\ pc = 0
    /\ frames = <<>>
    /\ status = "idle"
    /\ ret = NoRet
    /\ result = NoResult
    /\ runs = 0
    /\ last = NoLast
    /\ junk \in Garbage
    /\ tool = NoTool

\* the sets of functions whose code generation yields no entry point
FailSets == {{}, {2}}

generateAllCode ==
    /\ status = "idle"
    /\ cfg.jit
    /\ Len(compiled) < MaxGenerations * FunctionCount
    /\ \E failed \in FailSets :
          compiled' = compiled \o
              [i \in 1..FunctionCount |-> IF (i - 1) \in failed THEN "null" ELSE "native"]
    /\ last' = NoLast
    /\ UNCHANGED <<tool, junk, build, cfg, sp, mem, pc, frames, status, ret, result, runs>>

\* the highest nargs the register calling convention handles
MaxJitArgs == IF build.rev = 2 THEN MaxJitArgs2 ELSE MaxJitArgs3

\* an exception leaves every activation and run itself; nothing on the way catches it
Throw(s, m) ==
    /\ sp' = s
    /\ mem' = m
    /\ frames' = <<>>
    /\ ret' = NoRet
    /\ status' = "idle"
    /\ result' = [kind |-> "runtime_error", v |-> 0]

\* the native entry, called with the stack pointer at s and the positional
\* parameters `params`, returns v to the bridge
NativeReturn(index, s, m, params, v) ==
    /\ sp' = s
    /\ mem' = m
    /\ frames' = frames
    /\ ret' = [has |-> TRUE, v |-> v, fn |-> index, args |-> s, entry |-> sp, how |-> "native",
               params |-> params]
    /\ status' = "running"
    /\ result' = NoResult

\* what pop() yields with the stack pointer at k + 1
Popped(m, k) == IF InStack(k) THEN Read(m, k) ELSE junk

\* p1 .. pn of the switch: pn is popped first, from the top, p1 last
PoppedParams(m, s, nargs) == [k \in 1 .. nargs |-> Popped(m, s - nargs + k - 1)]

\* the switch with the parameters handed over in the order they are popped
callJitFunctionTopFirst(index, s, m) ==
    LET nargs == getFunction(index).nargs IN
    IF cfg.passParam /\ nargs > MaxJitArgs
    THEN IF build.rev = 1
         THEN NativeReturn(index, s, m, <<>>, 0)
         ELSE Throw(s, m)
    ELSE IF cfg.passParam
    THEN \E v \in NativeResults :
            NativeReturn(index, s - nargs, m,
                         [k \in 1 .. nargs |-> Popped(m, s - k)], v)
    ELSE \E v \in NativeResults : NativeReturn(index, s - nargs, m, <<>>, v)

\* callJitFunction: the call of compiled code under either calling convention.
\* With passParam the bridge pops the arguments and passes them; without, the
\* entry is called with the context alone and takes its arguments off the stack.
callJitFunction(index, s, m) ==
    LET nargs == getFunction(index).nargs IN
    IF cfg.passParam /\ nargs > MaxJitArgs
    THEN IF build.rev = 1
         THEN NativeReturn(index, s, m, <<>>, 0)     \* printf, and result stays 0
         ELSE Throw(s, m)
    ELSE IF cfg.passParam
    THEN \E v \in NativeResults :
            NativeReturn(index, s - nargs, m, PoppedParams(m, s, nargs), v)
    ELSE \E v \in NativeResults : NativeReturn(index, s - nargs, m, <<>>, v)

\* interpretFunction with args taken at the stack pointer, the arguments forgotten
interpretFunctionArgsAtTop(index, s, m) ==
    LET function == getFunction(index) IN
    /\ Len(frames) < MaxDepth
    /\ frames' = Append(frames, [fn |-> index, ip |-> 0, args |-> s, entry |-> s])
    /\ sp' = s + function.nregs
    /\ mem' = ReserveRegs(m, s, function.nregs)
    /\ ret' = NoRet
    /\ status' = "running"
    /\ result' = NoResult

\* the start of interpretFunction / interpret: args and the locals
interpretFunction(index, s, m) ==
    LET function == getFunction(index) IN
    /\ Len(frames) < MaxDepth
    /\ frames' = Append(frames,
            [fn |-> index, ip |-> 0, args |-> s - function.nargs, entry |-> s])
    /\ sp' = s + function.nregs
    /\ mem' = ReserveRegs(m, s, function.nregs)
    /\ ret' = NoRet
    /\ status' = "running"
    /\ result' = NoResult

\* callFunction dispatching on the configuration instead of the table
callFunctionByConfig(index, s, m) ==
    IF cfg.jit
    THEN callJitFunction(index, s, m)
    ELSE interpretFunction(index, s, m)

\* callFunction: compiled code when there is some, the interpreter otherwise
callFunction(index, s, m) ==
    IF getJitAddress(index) # "null"
    THEN callJitFunction(index, s, m)
    ELSE interpretFunction(index, s, m)

\* VirtualMachine::run with the wrong number of arguments
runBadCall(functionIndex, usrArgs) ==
    /\ status = "idle"
    /\ runs < MaxRuns
    /\ getFunction(functionIndex).nargs # Len(usrArgs)
    /\ result' = [kind |-> "BadFunctionCall", v |-> 0]
    /\ runs' = runs + 1
    /\ last' = NoLast
    /\ UNCHANGED <<tool, junk, build, cfg, compiled, sp, mem, pc, frames, status, ret>>

\* VirtualMachine::run up to the point where the function is entered
run(functionIndex, usrArgs) ==
    LET argsCount == getFunction(functionIndex).nargs
        pushed == PushArgs(mem, sp, usrArgs, argsCount)
    IN
    /\ status = "idle"
    /\ runs < MaxRuns
    /\ argsCount = Len(usrArgs)
    /\ runs' = runs + 1
    /\ last' = [NoLast EXCEPT !.op = "run", !.fn = functionIndex, !.sp = sp, !.usr = usrArgs]
    /\ IF build.rev = 1
       THEN /\ callFunction(functionIndex, 0, pushed)      \* reset() before interpret()
            /\ pc' = 0
       ELSE /\ callFunction(functionIndex, sp + argsCount, pushed)
            /\ pc' = pc
    /\ UNCHANGED <<tool, junk, build, cfg, compiled>>

\* the end of run: reset() and the result goes to the embedder
runExit ==
    /\ status = "running"
    /\ frames = <<>>
    /\ ret.has
    /\ result' = [kind |-> "value", v |-> ret.v]
    /\ sp' = 0
    /\ pc' = 0
    /\ status' = "idle"
    /\ ret' = NoRet
    /\ last' = NoLast
    /\ UNCHANGED <<tool, junk, build, cfg, compiled, mem, frames, runs>>

----------------------------------------------------------------------------
(* The interpreter loop *)

Running == status = "running" /\ frames # <<>> /\ ~ret.has /\ pc < MaxPC

Top == frames[Len(frames)]

\* *instructionPointer
Cur == getFunction(Top.fn).instructions[Top.ip + 1]

\* the cases of the switch of each revision's loop; every other opcode takes `default`
Cases ==
    LET common == {"INT_PUSH_CONSTANT", "DROP", "ADD", "SUB", "JMP", "FUNCTION_CALL",
                   "PUSH_FROM_VAR", "POP_INTO_VAR", "FUNCTION_RETURN",
                   "PRIMITIVE_CALL"} \cup JmpEqOps
    IN CASE build.rev = 1 -> common
         [] build.rev = 2 -> common \cup {"DUPLICATE"}
         [] build.rev = 3 -> common \cup {"DUPLICATE", "MUL", "DIV", "NOT"}

Dispatches(bc) == Running /\ Cur # END_SECTION /\ Cur.op = bc /\ bc \in Cases

\* the instruction about to execute and the stack it finds
Here ==
    [op |-> Cur.op, p |-> Cur.p, fn |-> Top.fn, ip |-> Top.ip, sp |-> sp,
     args |-> Top.args, usr |-> <<>>]

\* the tail of the loop body: instructionPointer (moved by delta) ++, programCounter_++
advance(s, m, delta) ==
    /\ sp' = s
    /\ mem' = m
    /\ frames' = [frames EXCEPT ![Len(frames)].ip = @ + delta + 1]
    /\ pc' = pc + 1
    /\ last' = Here
    /\ UNCHANGED <<tool, junk, build, cfg, compiled, status, ret, result, runs>>

doIntPushConstant ==
    /\ Dispatches("INT_PUSH_CONSTANT")
    /\ advance(sp + 1, Write(mem, sp, Cur.p), 0)

doDrop ==
    /\ Dispatches("DROP")
    /\ advance(sp - 1, mem, 0)

\* the third revision pushes the top again; the second has an empty case
doDuplicate ==
    /\ Dispatches("DUPLICATE")
    /\ IF build.rev = 3
       THEN \E v \in ReadChoices(mem, sp - 1) : advance(sp + 1, Write(mem, sp, v), 0)
       ELSE advance(sp, mem, 0)

doPushFromVar ==
    /\ Dispatches("PUSH_FROM_VAR")
    /\ \E v \in ReadChoices(mem, Top.args + Cur.p) :
          advance(sp + 1, Write(mem, sp, v), 0)

doPushIntoVar ==
    /\ Dispatches("POP_INTO_VAR")
    /\ \E v \in ReadChoices(mem, sp - 1) :
          advance(sp - 1, Write(mem, Top.args + Cur.p, v), 0)

\* Exact integers beyond 32 bits are pairs <<hi, lo>> standing for
\* hi * 2^31 + lo with 0 <= lo < 2^31.
ToWide(x) == IF x >= 0 THEN <<0, x>> ELSE <<-1, (x + MaxInt) + 1>>

WideAdd(a, b) ==
    IF a[2] > MaxInt - b[2]
    THEN <<a[1] + b[1] + 1, (a[2] - (MaxInt - b[2])) - 1>>
    ELSE <<a[1] + b[1], a[2] + b[2]>>

WideNeg(a) == IF a[2] = 0 THEN <<-a[1], 0>> ELSE <<-a[1] - 1, (MaxInt - a[2]) + 1>>

\* a * 2^16, for |a| < 2^46
WideShift16(a) == <<a[1] * 65536 + a[2] \div 32768, (a[2] % 32768) * 65536>>

\* left * right by 16-bit halves: x = x1 * 2^16 + x0 with 0 <= x0 < 2^16
WideMul(left, right) ==
    LET l1 == left \div 65536
        l0 == left % 65536
        r1 == right \div 65536
        r0 == right % 65536
        half == l0 * (r0 \div 2)
        low == WideAdd(WideAdd(<<0, half>>, <<0, half>>), <<0, l0 * (r0 % 2)>>)
        mid == WideAdd(ToWide(l1 * r0), ToWide(l0 * r1))
    IN WideAdd(WideAdd(<<2 * (l1 * r1), 0>>, WideShift16(mid)), low)

\* the mathematical value of left op right
Exact(bc, left, right) ==
    CASE bc = "ADD" -> WideAdd(ToWide(left), ToWide(right))
      [] bc = "SUB" -> WideAdd(ToWide(left), WideNeg(ToWide(right)))
      [] bc = "MUL" -> WideMul(left, right)

\* whether an exact value is a std::int32_t
FitsInt32(w) == w[1] \in {-1, 0}

\* the low 32 bits of an exact value, as a std::int32_t
Narrow(w) == IF w[1] % 2 = 0 THEN w[2] ELSE (w[2] - MaxInt) - 1

\* whether an exact value is a Value integer (48 bits, two's complement)
InValueRange(w) == -65536 <= w[1] /\ w[1] < 65536

\* an exact value reduced modulo 2^48 into the Value integer range
WrapToValue(w) == <<(((w[1] % 131072) + 65536) % 131072) - 65536, w[2]>>

\* left op right as the machine's 32-bit operation yields it
Arith(bc, left, right) == Narrow(Exact(bc, left, right))

\* right is popped first, left second; the result takes left's place.  The
\* third revision computes in std::int32_t, where a result that does not fit
\* is undefined: a build that does not trap goes on with the low 32 bits.
\* The older revisions compute in std::int64_t; the model holds no value
\* beyond 32 bits, so it stops where they would produce one.
doArith(bc) ==
    /\ Dispatches(bc)
    /\ \E right \in ReadChoices(mem, sp - 1) : \E left \in ReadChoices(mem, sp - 2) :
          /\ build.rev = 3 \/ FitsInt32(Exact(bc, left, right))
          /\ advance(sp - 1, Write(mem, sp - 2, Arith(bc, left, right)), 0)

doAdd == doArith("ADD")

doSub == doArith("SUB")

doMul == doArith("MUL")

\* ... and a build that traps on signed overflow ends the process
overflowFault ==
    /\ build.rev = 3
    /\ \E bc \in {"ADD", "SUB", "MUL"} :
          /\ Dispatches(bc)
          /\ \E right \in ReadChoices(mem, sp - 1) : \E left \in ReadChoices(mem, sp - 2) :
                ~FitsInt32(Exact(bc, left, right))
    /\ status' = "crashed"
    /\ last' = Here
    /\ UNCHANGED <<tool, junk, build, cfg, compiled, sp, mem, pc, frames, ret, result, runs>>

Abs(x) == IF x < 0 THEN -x ELSE x

\* C++ integer division truncates toward zero
TruncDiv(left, right) ==
    IF (left < 0) = (right < 0)
    THEN Abs(left) \div Abs(right)
    ELSE -(Abs(left) \div Abs(right))

\* left / right has no check of right: with right = 0 the division is undefined,
\* and a build whose divide instruction does not trap goes on with some quotient
doDiv ==
    /\ Dispatches("DIV")
    /\ \E right \in ReadChoices(mem, sp - 1) : \E left \in ReadChoices(mem, sp - 2) :
          IF right = 0
          THEN \E q \in Garbage : advance(sp - 1, Write(mem, sp - 2, q), 0)
          ELSE advance(sp - 1, Write(mem, sp - 2, TruncDiv(left, right)), 0)

\* ... and a build whose divide instruction traps ends the process
divideFault ==
    /\ Dispatches("DIV")
    /\ 0 \in ReadChoices(mem, sp - 1)
    /\ status' = "crashed"
    /\ last' = Here
    /\ UNCHANGED <<tool, junk, build, cfg, compiled, sp, mem, pc, frames, ret, result, runs>>

\* NOT that takes every value below 1 for false
doNotBelowOne ==
    /\ Dispatches("NOT")
    /\ \E i \in ReadChoices(mem, sp - 1) :
          advance(sp, Write(mem, sp - 1, IF i <= 0 THEN 1 ELSE 0), 0)

doNot ==
    /\ Dispatches("NOT")
    /\ \E i \in ReadChoices(mem, sp - 1) :
          advance(sp, Write(mem, sp - 1, IF i = 0 THEN 1 ELSE 0), 0)

\* JMP with the offset taken from the instruction after the jump
doJmpFromNext ==
    /\ Dispatches("JMP")
    /\ advance(sp, mem, Cur.p - 1)

doJmp ==
    /\ Dispatches("JMP")
    /\ advance(sp, mem, Cur.p)

\* the comparisons with the operands the other way round
CompareSwapped(bc, left, right) ==
    CASE bc = "JMP_EQ_EQ" -> right = left
      [] bc = "JMP_EQ_NEQ" -> right # left
      [] bc = "JMP_EQ_GT" -> right > left
      [] bc = "JMP_EQ_GE" -> right >= left
      [] bc = "JMP_EQ_LT" -> right < left
      [] bc = "JMP_EQ_LE" -> right <= left

Compare(bc, left, right) ==
    CASE bc = "JMP_EQ_EQ" -> left = right
      [] bc = "JMP_EQ_NEQ" -> left # right
      [] bc = "JMP_EQ_GT" -> left > right
      [] bc = "JMP_EQ_GE" -> left >= right
      [] bc = "JMP_EQ_LT" -> left < right
      [] bc = "JMP_EQ_LE" -> left <= right

\* doJmpEq .. doJmpLe: the value added to instructionPointer
JmpDelta(bc, left, right, delta) == IF Compare(bc, left, right) THEN delta ELSE 0

doJmpCompare(bc) ==
    /\ Dispatches(bc)
    /\ \E right \in ReadChoices(mem, sp - 1) : \E left \in ReadChoices(mem, sp - 2) :
          advance(sp - 2, mem, JmpDelta(bc, left, right, Cur.p))

doJmpEq == doJmpCompare("JMP_EQ_EQ")

doJmpNeq == doJmpCompare("JMP_EQ_NEQ")

doJmpGt == doJmpCompare("JMP_EQ_GT")

doJmpGe == doJmpCompare("JMP_EQ_GE")

\* a JMP_EQ_LT that also branches on equal operands
doJmpLtOrEqual ==
    /\ Dispatches("JMP_EQ_LT")
    /\ \E right \in ReadChoices(mem, sp - 1) : \E left \in ReadChoices(mem, sp - 2) :
          advance(sp - 2, mem, JmpDelta("JMP_EQ_LE", left, right, Cur.p))

doJmpLt == doJmpCompare("JMP_EQ_LT")

doJmpLe == doJmpCompare("JMP_EQ_LE")

getPrimitive(index) == primitives[index + 1]

\* a print primitive that pops its argument and pushes nothing
printWithoutResult(s, m) == [sp |-> s - 1, mem |-> m]

\* b9_prim_print_number, b9_prim_print_string: pop() the value to print, push(0)
printAndPushZero(s, m) == [sp |-> s, mem |-> Write(m, s - 1, 0)]

\* the stack a primitive leaves; print_stack only dumps it
callPrimitive(name, s, m) ==
    CASE name = "print_string" -> printAndPushZero(s, m)
      [] name = "print_number" -> printAndPushZero(s, m)
      [] name = "print_stack" -> [sp |-> s, mem |-> m]

doPrimitiveCall ==
    /\ Dispatches("PRIMITIVE_CALL")
    /\ Cur.p + 1 \in DOMAIN primitives
    /\ LET after == callPrimitive(getPrimitive(Cur.p), sp, mem)
       IN advance(after.sp, after.mem, 0)

\* FUNCTION_CALL up to the entry of the callee (or the return of its native code)
doFunctionCall ==
    /\ Dispatches("FUNCTION_CALL")
    /\ callFunction(Cur.p, sp, mem)
    /\ pc' = pc
    /\ last' = Here
    /\ UNCHANGED <<tool, junk, build, cfg, compiled, runs>>

\* the rest of FUNCTION_CALL: push(result), then the tail of the loop body
pushResult ==
    /\ status = "running"
    /\ frames # <<>>
    /\ ret.has
    /\ pc < MaxPC
    /\ sp' = sp + 1
    /\ mem' = Write(mem, sp, ret.v)
    /\ frames' = [frames EXCEPT ![Len(frames)].ip = @ + 1]
    /\ pc' = pc + 1
    /\ ret' = NoRet
    /\ last' = [Here EXCEPT !.op = "push_result"]
    /\ UNCHANGED <<tool, junk, build, cfg, compiled, status, result, runs>>

\* FUNCTION_RETURN that pops its result and leaves the rest of the frame
doFunctionReturnPopOnly ==
    /\ Dispatches("FUNCTION_RETURN")
    /\ \E v \in ReadChoices(mem, sp - 1) :
          ret' = [has |-> TRUE, v |-> v, fn |-> Top.fn, args |-> Top.args,
                  entry |-> Top.entry, how |-> "return", params |-> <<>>]
    /\ sp' = sp - 1
    /\ frames' = SubSeq(frames, 1, Len(frames) - 1)
    /\ last' = Here
    /\ UNCHANGED <<tool, junk, build, cfg, compiled, mem, pc, status, result, runs>>

\* FUNCTION_RETURN: the top of the stack is the result, the stack goes back to args
doFunctionReturn ==
    /\ Dispatches("FUNCTION_RETURN")
    /\ \E v \in ReadChoices(mem, sp - 1) :
          ret' = [has |-> TRUE, v |-> v, fn |-> Top.fn, args |-> Top.args,
                  entry |-> Top.entry, how |-> "return", params |-> <<>>]
    /\ sp' = Top.args
    /\ frames' = SubSeq(frames, 1, Len(frames) - 1)
    /\ last' = Here
    /\ UNCHANGED <<tool, junk, build, cfg, compiled, mem, pc, status, result, runs>>

\* the loop ends at END_SECTION: the third revision throws, the older ones
\* return the top of the stack and leave the stack pointer where it is
endOfFunction ==
    /\ Running
    /\ Cur = END_SECTION
    /\ IF build.rev = 3
       THEN Throw(sp, mem)
       ELSE /\ \E v \in ReadChoices(mem, sp - 1) :
                  ret' = [has |-> TRUE, v |-> v, fn |-> Top.fn, args |-> Top.args,
                          entry |-> Top.entry, how |-> "end", params |-> <<>>]
            /\ frames' = SubSeq(frames, 1, Len(frames) - 1)
            /\ UNCHANGED <<sp, mem, status, result>>
    /\ last' = Here
    /\ UNCHANGED <<tool, junk, build, cfg, compiled, pc, runs>>

\* default: assert(false); break;  an abort, or nothing at all under NDEBUG
doDefault ==
    /\ Running
    /\ Cur # END_SECTION
    /\ Cur.op \notin Cases
    /\ IF build.ndebug
       THEN advance(sp, mem, 0)
       ELSE /\ status' = "crashed"
            /\ last' = Here
            /\ UNCHANGED <<tool, junk, build, cfg, compiled, sp, mem, pc, frames, ret, result, runs>>

\* the cells of stack_ the next step reads or writes
Footprint ==
    IF ret.has THEN {sp}
    ELSE IF Cur = END_SECTION THEN (IF build.rev = 3 THEN {} ELSE {sp - 1})
    ELSE IF Cur.op \notin Cases THEN {}
    ELSE CASE Cur.op = "INT_PUSH_CONSTANT" -> {sp}
           [] Cur.op = "DROP" -> {sp - 1}
           [] Cur.op = "DUPLICATE" -> IF build.rev = 3 THEN {sp - 1, sp} ELSE {}
           [] Cur.op = "PUSH_FROM_VAR" -> {Top.args + Cur.p, sp}
           [] Cur.op = "POP_INTO_VAR" -> {sp - 1, Top.args + Cur.p}
           [] Cur.op \in {"ADD", "SUB", "MUL", "DIV"} \cup JmpEqOps -> {sp - 1, sp - 2}
           [] Cur.op \in {"NOT", "FUNCTION_RETURN"} -> {sp - 1}
           [] OTHER -> {}

\* an access outside stack_ is undefined: the build may go on (with what the
\* steps above read and write) or the process may end here
memoryFault ==
    /\ status = "running"
    /\ frames # <<>>
    /\ pc < MaxPC
    /\ \E k \in Footprint : ~InStack(k)
    /\ status' = "crashed"
    /\ last' = [Here EXCEPT !.op = "fault"]
    /\ UNCHANGED <<tool, junk, build, cfg, compiled, sp, mem, pc, frames, ret, result, runs>>

Next ==
    \/ generateAllCode
    \/ \E c \in Calls : runBadCall(c[1], c[2])
    \/ \E c \in Calls : run(c[1], c[2])
    \/ runExit
    \/ doIntPushConstant
    \/ doDrop
    \/ doDuplicate
    \/ doPushFromVar
    \/ doPushIntoVar
    \/ doAdd
    \/ doSub
    \/ doMul
    \/ overflowFault
    \/ doDiv
    \/ divideFault
    \/ doNot
    \/ doJmp
    \/ doJmpEq
    \/ doJmpNeq
    \/ doJmpGt
    \/ doJmpGe
    \/ doJmpLt
    \/ doJmpLe
    \/ doFunctionCall
    \/ pushResult
    \/ doFunctionReturn
    \/ endOfFunction
    \/ doDefault
    \/ memoryFault

Spec == Init /\ [][Next]_vars

----------------------------------------------------------------------------
(* The Instruction word: bytecode in the top 8 bits, parameter in the low 24 *)

\* the virtual machine as constructed, left alone while a component is exercised
IdleVm ==
    /\ build = [rev |-> 3, ndebug |-> FALSE]
    /\ cfg = [jit |-> FALSE, passParam |-> FALSE]
    /\ compiled = <<>>
    /\ sp = 0
    /\ mem = <<>>
    /\ pc = 0
    /\ frames = <<>>
    /\ status = "idle"
    /\ ret = NoRet
    /\ result = NoResult
    /\ runs = 0
    /\ last = NoLast
    /\ junk = 0

\* the weight of the bytecode field: 1 << BYTECODE_SHIFT
TwoToShift == 2^BYTECODE_SHIFT

\* p & PARAMETER_MASK for a std::int32_t p: the low 24 bits of its two's complement
MaskParameter(p) == p % (PARAMETER_MASK + 1)

\* a RawInstruction, as its top 8 bits and its low 24 bits
RawInstruction(bc, p) == [top |-> bc % 256, low |-> MaskParameter(p)]

\* Instruction::byteCode(): raw_ >> BYTECODE_SHIFT
byteCode(raw) == raw.top

\* parameter() without the sign extension
parameterUnsigned(raw) == raw.low

\* Instruction::parameter(): the low 24 bits, sign-extended when bit 23 is set
parameter(raw) ==
    IF (raw.low \div 8388608) % 2 = 1 THEN raw.low - TwoToShift ELSE raw.low

\* the immediates the encoding is exercised on
Immediates ==
    {-8388608, -8388607, -4194304, -65536, -13, -2, -1, 0, 1, 2, 9, 255, 65535,
     4194304, 8388606, 8388607}

InitInstruction ==
    /\ IdleVm
    /\ tool \in [kind : {"pair"}, bc : 0 .. 255, p : Immediates]

\* Instruction(bc, p)
encode ==
    /\ tool.kind = "pair"
    /\ tool' = [kind |-> "instruction", bc |-> tool.bc, p |-> tool.p,
                raw |-> RawInstruction(tool.bc, tool.p)]
    /\ UNCHANGED vm

\* byteCode() and parameter() of that Instruction
decode ==
    /\ tool.kind = "instruction"
    /\ tool' = [kind |-> "decoded", bc |-> tool.bc, p |-> tool.p, raw |-> tool.raw,
                byteCode |-> byteCode(tool.raw), parameter |-> parameter(tool.raw)]
    /\ UNCHANGED vm

NextInstruction == encode \/ decode

SpecInstruction == InitInstruction /\ [][NextInstruction]_vars

----------------------------------------------------------------------------
(* Objects and their maps: NEW_OBJECT, PUSH_FROM_OBJECT, POP_INTO_OBJECT *)

IntValue(n) == [tag |-> "int", v |-> n]

\* a Value holding a reference to the k-th allocated object
PtrValue(k) == [tag |-> "ptr", v |-> k]

isPtr(value) == value.tag = "ptr"

\* the slot type every slot created by POP_INTO_OBJECT has
ValueSlot == "VALUE"

SlotIds == {1, 2}

\* The map table: node k records its parent (0 is the empty map every fresh
\* object wears), and the slot id and type it adds to the parent.
RECURSIVE MapDepth(_, _)
MapDepth(maps, map) == IF map = 0 THEN 0 ELSE 1 + MapDepth(maps, maps[map].parent)

\* Object::lookup: walk the chain toward the root; the descriptor of the first
\* node recording slotId is its depth, and 0 stands for "not found"
RECURSIVE lookup(_, _, _)
lookup(maps, map, slotId) ==
    IF map = 0 THEN 0
    ELSE IF maps[map].id = slotId THEN MapDepth(maps, map)
    ELSE lookup(maps, maps[map].parent, slotId)

Children(maps, parent, slotId, type) ==
    {k \in 1 .. Len(maps) :
        maps[k].parent = parent /\ maps[k].id = slotId /\ maps[k].type = type}

\* a transition that allocates a new child map every time
transitionFresh(maps, parent, slotId, type) ==
    [maps |-> Append(maps, [parent |-> parent, id |-> slotId, type |-> type]),
     map |-> Len(maps) + 1]

\* the transition of a map: the child memoized on the parent, or a new child
transition(maps, parent, slotId, type) ==
    IF Children(maps, parent, slotId, type) # {}
    THEN [maps |-> maps, map |-> CHOOSE k \in Children(maps, parent, slotId, type) : TRUE]
    ELSE [maps |-> Append(maps, [parent |-> parent, id |-> slotId, type |-> type]),
          map |-> Len(maps) + 1]

\* a store that always lands in the object's first slot
setValueFirst(object, descriptor, val) == [object EXCEPT !.slots[1] = val]

\* Object::setValue / getValue through a descriptor
setValue(object, descriptor, val) == [object EXCEPT !.slots[descriptor] = val]

getValue(object, descriptor) == object.slots[descriptor]

\* The operations the objects are exercised with.  A slot write is the value
\* and the object pushed, then POP_INTO_OBJECT; `order` says which is pushed
\* first.  The k-th write stores the integer 10 * k + id.
Op(op, p) == [op |-> op, p |-> p]

WrittenValue(k, id) == 10 * k + id

WriteOps(order, obj, id, k) ==
    IF order = "value-object"
    THEN << Op("push", IntValue(WrittenValue(k, id))), Op("push", PtrValue(obj)),
            Op("POP_INTO_OBJECT", id) >>
    ELSE << Op("push", PtrValue(obj)), Op("push", IntValue(WrittenValue(k, id))),
            Op("POP_INTO_OBJECT", id) >>

RECURSIVE WritesFrom(_, _, _, _)
WritesFrom(order, obj, w, k) ==
    IF k > Len(w) THEN <<>>
    ELSE WriteOps(order, obj, w[k], k) \o WritesFrom(order, obj, w, k + 1)

ReadOps(operand, id) == << Op("push", operand), Op("PUSH_FROM_OBJECT", id) >>

\* two objects are allocated, written with the slot ids of w1 and of w2, and
\* then slot r.id is read from r.operand
Script(order, w1, w2, r) ==
    << Op("NEW_OBJECT", 0), Op("DROP", 0), Op("NEW_OBJECT", 0), Op("DROP", 0) >>
      \o WritesFrom(order, 1, w1, 1) \o WritesFrom(order, 2, w2, 1)
      \o ReadOps(r.operand, r.id)

SlotWrites == UNION {[1 .. n -> SlotIds] : n \in 0 .. MaxWrites}

InitObjects ==
    /\ IdleVm
    /\ \E order \in {"value-object", "object-value"} :
       \E w1 \in SlotWrites : \E w2 \in SlotWrites :
       \E r \in [operand : {PtrValue(1), PtrValue(2), IntValue(5)}, id : SlotIds] :
          tool = [kind |-> "objects", order |-> order, w1 |-> w1, w2 |-> w2, r |-> r,
                  script |-> Script(order, w1, w2, r), ip |-> 1,
                  stack |-> <<>>, heap |-> <<>>, maps |-> <<>>,
                  status |-> "running", pushed |-> FALSE]

\* the operation the interpreter is at
AtOp(op) ==
    /\ tool.kind = "objects"
    /\ tool.status = "running"
    /\ tool.ip <= Len(tool.script)
    /\ tool.script[tool.ip].op = op

ObjParam == tool.script[tool.ip].p

ObjTop == tool.stack[Len(tool.stack)]

ObjPop(stack) == SubSeq(stack, 1, Len(stack) - 1)

\* throw std::runtime_error: the run is over
ObjThrow(stack) ==
    tool' = [tool EXCEPT !.stack = stack, !.status = "error", !.pushed = FALSE]

ObjNext(stack, heap, maps, pushed) ==
    tool' = [tool EXCEPT !.stack = stack, !.heap = heap, !.maps = maps,
                         !.ip = @ + 1, !.pushed = pushed]

\* an instruction pushing a Value (INT_PUSH_CONSTANT, PUSH_FROM_VAR of a local
\* holding the object)
pushValue ==
    /\ AtOp("push")
    /\ ObjNext(Append(tool.stack, ObjParam), tool.heap, tool.maps, FALSE)
    /\ UNCHANGED vm

\* DROP in the object exercise
dropValue ==
    /\ AtOp("DROP")
    /\ ObjNext(ObjPop(tool.stack), tool.heap, tool.maps, FALSE)
    /\ UNCHANGED vm

doNewObject ==
    /\ AtOp("NEW_OBJECT")
    /\ ObjNext(Append(tool.stack, PtrValue(Len(tool.heap) + 1)),
               Append(tool.heap, [map |-> 0, slots |-> <<>>]), tool.maps, TRUE)
    /\ UNCHANGED vm

\* a PUSH_FROM_OBJECT that reads a missing slot as 0
doPushFromObjectUndefined ==
    /\ AtOp("PUSH_FROM_OBJECT")
    /\ LET value == ObjTop
           rest == ObjPop(tool.stack)
       IN IF ~isPtr(value)
          THEN ObjThrow(rest)
          ELSE LET obj == tool.heap[value.v]
                   descriptor == lookup(tool.maps, obj.map, ObjParam)
               IN ObjNext(Append(rest, IF descriptor # 0 THEN getValue(obj, descriptor)
                                                         ELSE IntValue(0)),
                          tool.heap, tool.maps, TRUE)
    /\ UNCHANGED vm

doPushFromObject ==
    /\ AtOp("PUSH_FROM_OBJECT")
    /\ LET value == ObjTop
           rest == ObjPop(tool.stack)
       IN IF ~isPtr(value)
          THEN ObjThrow(rest)
          ELSE LET obj == tool.heap[value.v]
                   descriptor == lookup(tool.maps, obj.map, ObjParam)
               IN IF descriptor # 0
                  THEN ObjNext(Append(rest, getValue(obj, descriptor)),
                               tool.heap, tool.maps, TRUE)
                  ELSE ObjThrow(rest)
    /\ UNCHANGED vm

doPopIntoObject ==
    /\ AtOp("POP_INTO_OBJECT")
    /\ Len(tool.stack) >= 2
    /\ IF ~isPtr(ObjTop)
       THEN ObjThrow(tool.stack)
       ELSE LET object == ObjTop.v
                rest == ObjPop(tool.stack)
                val == rest[Len(rest)]
                found == lookup(tool.maps, tool.heap[object].map, ObjParam) # 0
                t == transition(tool.maps, tool.heap[object].map, ObjParam, ValueSlot)
                maps == IF found THEN tool.maps ELSE t.maps
                grown == IF found THEN tool.heap[object]
                         ELSE [map |-> t.map,
                               slots |-> Append(tool.heap[object].slots, IntValue(0))]
                descriptor == lookup(maps, grown.map, ObjParam)
            IN ObjNext(ObjPop(rest),
                       [tool.heap EXCEPT ![object] = setValue(grown, descriptor, val)],
                       maps, FALSE)
    /\ UNCHANGED vm

NextObjects ==
    \/ pushValue
    \/ dropValue
    \/ doNewObject
    \/ doPushFromObject
    \/ doPopIntoObject

SpecObjects == InitObjects /\ [][NextObjects]_vars

----------------------------------------------------------------------------
(* Programs run by the interpreter alone: sumto(n) and hello() *)

InterpreterCalls == {<<3, <<n>>>> : n \in 0 .. MaxSum} \cup {<<18, <<>>>>}

\* a VM constructed without the JIT
InitInterpreter == Init /\ ~cfg.jit

\* the one call of run explored on each VM
runInterpreted(functionIndex, usrArgs) ==
    /\ runs = 0
    /\ run(functionIndex, usrArgs)

\* the instructions of sumto and hello
InterpreterStep ==
    \/ doIntPushConstant
    \/ doDrop
    \/ doPushFromVar
    \/ doPushIntoVar
    \/ doAdd
    \/ doJmp
    \/ doJmpLt
    \/ doPrimitiveCall
    \/ doFunctionReturn
    \/ runExit

NextInterpreter ==
    \/ \E c \in InterpreterCalls : runInterpreted(c[1], c[2])
    \/ InterpreterStep

\* run does not come back to the embedder before interpret has returned:
\* the loop keeps stepping
SpecInterpreter ==
    InitInterpreter /\ [][NextInterpreter]_vars /\ WF_vars(InterpreterStep)

----------------------------------------------------------------------------
(* Construction and destruction of the virtual machine *)

\* no VirtualMachine object yet; acquired and released count the calls of
\* initializeJit that succeeded and the calls of shutdownJit
NoVm ==
    [kind |-> "life", vm |-> "absent", failed |-> FALSE, initialized |-> FALSE,
     acquired |-> 0, released |-> 0, calls |-> 0]

InitLife ==
    /\ build \in [rev : {1, 2, 3}, ndebug : BOOLEAN]
    /\ cfg \in {c \in [jit : BOOLEAN, passParam : BOOLEAN] : c.passParam => c.jit}
    /\ compiled = <<>>
    /\ sp = 0
    /\ mem = <<>>
    /\ pc = 0
    /\ frames = <<>>
    /\ status = "idle"
    /\ ret = NoRet
    /\ result = NoResult
    /\ runs = 0
    /\ last = NoLast
    /\ junk \in Garbage
    /\ tool = NoVm

\* initializeJit() returns whether the backend came up
JitOutcomes == BOOLEAN

\* VirtualMachine::VirtualMachine(cfg): a throw leaves no object behind
construct ==
    /\ build.rev >= 2
    /\ tool.kind = "life"
    /\ tool.vm = "absent"
    /\ ~tool.failed
    /\ IF cfg.jit
       THEN \E ok \in JitOutcomes :
               IF ok
               THEN tool' = [tool EXCEPT !.vm = "alive", !.acquired = @ + 1]
               ELSE tool' = [tool EXCEPT !.failed = TRUE]
       ELSE tool' = [tool EXCEPT !.vm = "alive"]
    /\ UNCHANGED vm

\* VirtualMachine::~VirtualMachine
destroy ==
    /\ build.rev >= 2
    /\ tool.kind = "life"
    /\ tool.vm = "alive"
    /\ tool' = [tool EXCEPT !.vm = "gone",
                            !.released = IF cfg.jit THEN @ + 1 ELSE @]
    /\ UNCHANGED vm

\* the first revision's VM is constructed bare and destroyed as it is;
\* the backend is the business of initialize() and shutdown()
constructBare ==
    /\ build.rev = 1
    /\ tool.kind = "life"
    /\ tool.vm = "absent"
    /\ tool' = [tool EXCEPT !.vm = "alive"]
    /\ UNCHANGED vm

destroyBare ==
    /\ build.rev = 1
    /\ tool.kind = "life"
    /\ tool.vm = "alive"
    /\ tool' = [tool EXCEPT !.vm = "gone"]
    /\ UNCHANGED vm

\* bool VirtualMachine::initialize()
initialize ==
    /\ build.rev = 1
    /\ tool.kind = "life"
    /\ tool.vm = "alive"
    /\ tool.calls < MaxLifeCalls
    /\ IF cfg.jit
       THEN \E ok \in JitOutcomes :
               IF ok
               THEN tool' = [tool EXCEPT !.initialized = TRUE, !.acquired = @ + 1,
                                         !.calls = @ + 1]
               ELSE tool' = [tool EXCEPT !.failed = TRUE, !.calls = @ + 1]
       ELSE tool' = [tool EXCEPT !.initialized = TRUE, !.calls = @ + 1]
    /\ UNCHANGED vm

\* bool VirtualMachine::shutdown()
shutdown ==
    /\ build.rev = 1
    /\ tool.kind = "life"
    /\ tool.vm = "alive"
    /\ tool.calls < MaxLifeCalls
    /\ tool' = [tool EXCEPT !.released = IF cfg.jit THEN @ + 1 ELSE @,
                            !.calls = @ + 1]
    /\ UNCHANGED vm

NextLife ==
    \/ construct
    \/ destroy
    \/ constructBare
    \/ destroyBare
    \/ initialize
    \/ shutdown

SpecLife == InitLife /\ [][NextLife]_vars

----------------------------------------------------------------------------
(* The compiler's jumps: labels, resolution, encoding, and their execution *)

\* the compiler's operator codes
OperatorCode ==
    [o \in {"END_SECTION", "FUNCTION_CALL", "FUNCTION_RETURN", "PRIMITIVE_CALL",
            "DUPLICATE", "DROP", "PUSH_FROM_VAR", "POP_INTO_VAR", "ADD", "SUB", "MUL",
            "DIV", "INT_PUSH_CONSTANT", "NOT", "JMP", "STR_PUSH_CONSTANT", "STR_JMP_NEQ"}
            \cup JmpEqOps |->
        CASE o = "END_SECTION" -> 0
          [] o = "FUNCTION_CALL" -> 1
          [] o = "FUNCTION_RETURN" -> 2
          [] o = "PRIMITIVE_CALL" -> 3
          [] o = "DUPLICATE" -> 4
          [] o = "DROP" -> 5
          [] o = "PUSH_FROM_VAR" -> 6
          [] o = "POP_INTO_VAR" -> 7
          [] o = "ADD" -> 8
          [] o = "SUB" -> 9
          [] o = "MUL" -> 10
          [] o = "DIV" -> 11
          [] o = "INT_PUSH_CONSTANT" -> 12
          [] o = "NOT" -> 13
          [] o = "JMP" -> 14
          [] o = "JMP_EQ_EQ" -> 15
          [] o = "JMP_EQ_NEQ" -> 16
          [] o = "JMP_EQ_GT" -> 17
          [] o = "JMP_EQ_GE" -> 18
          [] o = "JMP_EQ_LT" -> 19
          [] o = "JMP_EQ_LE" -> 20
          [] o = "STR_PUSH_CONSTANT" -> 21
          [] o = "STR_JMP_NEQ" -> 23]

\* enum class ByteCode: the name of an opcode byte
ByteCodeName(raw) ==
    CASE raw = 0 -> "END_SECTION"
      [] raw = 1 -> "FUNCTION_CALL"
      [] raw = 2 -> "FUNCTION_RETURN"
      [] raw = 3 -> "PRIMITIVE_CALL"
      [] raw = 4 -> "DUPLICATE"
      [] raw = 5 -> "DROP"
      [] raw = 6 -> "PUSH_FROM_VAR"
      [] raw = 7 -> "POP_INTO_VAR"
      [] raw = 8 -> "ADD"
      [] raw = 9 -> "SUB"
      [] raw = 10 -> "MUL"
      [] raw = 11 -> "DIV"
      [] raw = 12 -> "INT_PUSH_CONSTANT"
      [] raw = 13 -> "NOT"
      [] raw = 14 -> "JMP"
      [] raw = 15 -> "JMP_EQ_EQ"
      [] raw = 16 -> "JMP_EQ_NEQ"
      [] raw = 17 -> "JMP_EQ_GT"
      [] raw = 18 -> "JMP_EQ_GE"
      [] raw = 19 -> "JMP_EQ_LT"
      [] raw = 20 -> "JMP_EQ_LE"
      [] raw = 21 -> "STR_PUSH_CONSTANT"
      [] raw = 32 -> "NEW_OBJECT"
      [] raw = 33 -> "PUSH_FROM_OBJECT"
      [] raw = 34 -> "POP_INTO_OBJECT"
      [] raw = 35 -> "CALL_INDIRECT"
      [] raw = 36 -> "SYSTEM_COLLECT"
      [] OTHER -> "other"

\* LabelTable: table[k] of the script is table[k + 1] here.  create() pushes
\* undefined and returns the new length, which is the label.
LabelCreate(table) == [table |-> Append(table, "undefined"), label |-> Len(table) + 1]

\* table[label] = offset, the array growing by one when label is its length
LabelPlace(table, label, offset) ==
    IF label + 1 <= Len(table)
    THEN [table EXCEPT ![label + 1] = offset]
    ELSE Append(table, offset)

instructionIndex(table, label) ==
    IF label + 1 <= Len(table) THEN table[label + 1] ELSE "undefined"

\* a resolution that measures from the jump itself
resolveLabelFromJump(table, label, fromIndex) ==
    instructionIndex(table, label) - fromIndex

\* FunctionDefinition.resolveLabel
resolveLabel(table, label, fromIndex) ==
    instructionIndex(table, label) - fromIndex - 1

\* Instruction.output: (OperatorCode[operator] << 24), and | (operand &
\* 0x00FFFFFF) `if (this.operand)`.  The operand is <<>> when undefined and
\* <<n>> otherwise; an operator missing from the table shifts undefined, which is 0.
output(operator, operand) ==
    RawInstruction(IF operator \in DOMAIN OperatorCode THEN OperatorCode[operator] ELSE 0,
                   IF operand = <<>> THEN 0 ELSE operand[1])

\* the label table after `earlier` labels were created and the jump's label
\* was created and placed at `target`
TableWith(earlier, target) ==
    LET RECURSIVE Before(_)
        Before(n) == IF n = 0 THEN <<>> ELSE LabelCreate(Before(n - 1)).table
        made == LabelCreate(Before(earlier))
    IN [table |-> LabelPlace(made.table, made.label, target), label |-> made.label]

\* The first pass has emitted a branch at instruction `index` whose operand is
\* a label placed at instruction `target`; left and right are the operands a
\* conditional branch will find on the stack.
InitCompiler ==
    /\ IdleVm
    /\ \E operator \in {"JMP"} \cup JmpEqOps :
       \E index \in 0 .. MaxIndex : \E target \in 0 .. MaxIndex :
       \E earlier \in 0 .. 1 : \E left \in {1, 2} : \E right \in {1, 2} :
          tool = [kind |-> "jump", stage |-> "compiled", operator |-> operator,
                  index |-> index, target |-> target,
                  table |-> TableWith(earlier, target).table,
                  operand |-> TableWith(earlier, target).label,
                  left |-> left, right |-> right, raw |-> RawInstruction(0, 0),
                  taken |-> FALSE, next |-> 0]

\* FunctionDefinition.resolve: the label in the operand becomes an offset
resolve ==
    /\ tool.kind = "jump"
    /\ tool.stage = "compiled"
    /\ tool' = [tool EXCEPT !.stage = "resolved",
                            !.operand = resolveLabel(tool.table, tool.operand, tool.index)]
    /\ UNCHANGED vm

\* Module.output writes the instruction
emit ==
    /\ tool.kind = "jump"
    /\ tool.stage = "resolved"
    /\ tool' = [tool EXCEPT !.stage = "emitted",
                            !.raw = output(tool.operator, <<tool.operand>>)]
    /\ UNCHANGED vm

\* the interpreter executes the instruction at `index`: the branch adds its
\* parameter or nothing to instructionPointer, and the loop's tail adds one
branch ==
    /\ tool.kind = "jump"
    /\ tool.stage = "emitted"
    /\ LET bc == ByteCodeName(byteCode(tool.raw))
           delta == IF bc = "JMP" THEN parameter(tool.raw)
                    ELSE JmpDelta(bc, tool.left, tool.right, parameter(tool.raw))
       IN tool' = [tool EXCEPT !.stage = "executed",
                               !.taken = (bc = "JMP" \/ Compare(bc, tool.left, tool.right)),
                               !.next = tool.index + delta + 1]
    /\ UNCHANGED vm

NextCompiler ==
    \/ resolve
    \/ emit
    \/ branch

SpecCompiler == InitCompiler /\ [][NextCompiler]_vars

----------------------------------------------------------------------------
(* The compiler's first pass over a function declaration *)

\* A value of the script that may be undefined is a sequence: <<>> is
\* undefined and <<n>> the number n.

\* SymbolTable.lookup: ids are handed out from 0 in the order of interning
lookupSymbol(table, name) ==
    IF \E i \in 1 .. Len(table) : table[i] = name
    THEN << (CHOOSE i \in 1 .. Len(table) : table[i] = name) - 1 >>
    ELSE <<>>

\* SymbolTable.get: intern when not found
internSymbol(table, name) ==
    IF lookupSymbol(table, name) = <<>> THEN Append(table, name) ELSE table

\* FunctionDefinition.localIndex: `if (index)` is false for undefined and for 0
localIndex(args, regs, name) ==
    IF lookupSymbol(regs, name) # <<>> /\ lookupSymbol(regs, name)[1] # 0
    THEN << lookupSymbol(regs, name)[1] + Len(args) >>
    ELSE lookupSymbol(args, name)

\* new Instruction(operator, operand) of the script
NewInstruction(operator, operand) == [operator |-> operator, operand |-> operand]

\* handleVariableDeclarator, handleExpressionStatement over
\* handleUpdateExpression, and handleReturnStatement of an identifier:
\* the symbol table and the instructions after the statement
handleStatement(args, regs, statement) ==
    CASE statement.type = "VariableDeclarator" ->
            LET interned == internSymbol(regs, statement.name) IN
            [regs |-> interned,
             instructions |->
                IF statement.init = <<>> THEN <<>>
                ELSE << NewInstruction("INT_PUSH_CONSTANT", statement.init),
                        NewInstruction("POP_INTO_VAR",
                                       localIndex(args, interned, statement.name)) >>]
      [] statement.type = "UpdateExpression" ->
            [regs |-> regs,
             instructions |->
                << NewInstruction("PUSH_FROM_VAR", localIndex(args, regs, statement.name)) >>
                \o (IF statement.prefix THEN <<>> ELSE << NewInstruction("DUPLICATE", <<>>) >>)
                \o << NewInstruction("INT_PUSH_CONSTANT", <<1>>),
                      NewInstruction("ADD", <<>>) >>
                \o (IF statement.prefix THEN << NewInstruction("DUP", <<>>) >> ELSE <<>>)
                \o << NewInstruction("POP_INTO_VAR", localIndex(args, regs, statement.name)),
                      NewInstruction("DROP", <<>>) >>]
      [] statement.type = "ReturnStatement" ->
            [regs |-> regs,
             instructions |->
                << NewInstruction("PUSH_FROM_VAR", localIndex(args, regs, statement.name)),
                   NewInstruction("FUNCTION_RETURN", <<>>) >>]

\* handleBody over the first k statements
RECURSIVE handleBody(_, _, _)
handleBody(args, body, k) ==
    IF k = 0 THEN [regs |-> <<>>, instructions |-> <<>>]
    ELSE LET before == handleBody(args, body, k - 1)
             this == handleStatement(args, before.regs, body[k])
         IN [regs |-> this.regs, instructions |-> before.instructions \o this.instructions]

\* handleFunctionDeclaration: the body, a return of 0 unless the last
\* instruction is a FUNCTION_RETURN, and END_SECTION
handleFunctionDeclaration(args, body) ==
    LET inner == handleBody(args, body, Len(body))
        n == Len(inner.instructions)
    IN [regs |-> inner.regs,
        instructions |->
            inner.instructions
            \o (IF n > 0 /\ inner.instructions[n].operator = "FUNCTION_RETURN" THEN <<>>
                ELSE << NewInstruction("INT_PUSH_CONSTANT", <<0>>),
                        NewInstruction("FUNCTION_RETURN", <<0>>) >>)
            \o << NewInstruction("END_SECTION", <<0>>) >>]

ParamNames == << "a", "b", "c", "d" >>

LocalNames == {"x", "y"}

\* the statements a body is made of
Statements(nargs) ==
    [type : {"VariableDeclarator"}, name : LocalNames, init : {<<>>, <<5>>}]
    \cup [type : {"UpdateExpression"},
          name : LocalNames \cup {ParamNames[i] : i \in 1 .. nargs}, prefix : BOOLEAN]
    \cup [type : {"ReturnStatement"},
          name : LocalNames \cup {ParamNames[i] : i \in 1 .. nargs}]

\* every local is declared by a statement before the ones that use it
DeclaredBeforeUse(body) ==
    \A k \in 1 .. Len(body) :
        (body[k].type # "VariableDeclarator" /\ body[k].name \in LocalNames)
            => \E j \in 1 .. k - 1 :
                  body[j].type = "VariableDeclarator" /\ body[j].name = body[k].name

InitFirstPass ==
    /\ IdleVm
    /\ \E nargs \in 0 .. MaxParams : \E n \in 1 .. MaxStatements :
       \E body \in [1 .. n -> Statements(nargs)] :
          /\ DeclaredBeforeUse(body)
          /\ tool = [kind |-> "function", stage |-> "parsed",
                     args |-> [i \in 1 .. nargs |-> ParamNames[i]], body |-> body,
                     regs |-> <<>>, instructions |-> <<>>, words |-> <<>>]

\* the first pass of compile over the declaration
compileFunction ==
    /\ tool.kind = "function"
    /\ tool.stage = "parsed"
    /\ LET inner == handleFunctionDeclaration(tool.args, tool.body)
       IN tool' = [tool EXCEPT !.stage = "compiled", !.regs = inner.regs,
                               !.instructions = inner.instructions]
    /\ UNCHANGED vm

\* FunctionDefinition.output: every instruction as its encoded word
outputFunction ==
    /\ tool.kind = "function"
    /\ tool.stage = "compiled"
    /\ tool' = [tool EXCEPT !.stage = "written",
                  !.words = [i \in 1 .. Len(tool.instructions) |->
                                output(tool.instructions[i].operator,
                                       tool.instructions[i].operand)]]
    /\ UNCHANGED vm

NextFirstPass ==
    \/ compileFunction
    \/ outputFunction

SpecFirstPass == InitFirstPass /\ [][NextFirstPass]_vars

----------------------------------------------------------------------------
(* One instruction from the compiler's output to the VM's decoding *)

InitWord ==
    /\ IdleVm
    /\ tool \in [kind : {"word"}, stage : {"new"}, operator : DOMAIN OperatorCode,
                 operand : Immediates, raw : {RawInstruction(0, 0)},
                 name : {"none"}, parameter : {0}]

\* Instruction.output of the compiler
writeWord ==
    /\ tool.kind = "word"
    /\ tool.stage = "new"
    /\ tool' = [tool EXCEPT !.stage = "written",
                            !.raw = output(tool.operator, <<tool.operand>>)]
    /\ UNCHANGED vm

\* the VM's Instruction over the word: byteCode() and parameter()
readWord ==
    /\ tool.kind = "word"
    /\ tool.stage = "written"
    /\ tool' = [tool EXCEPT !.stage = "read",
                            !.name = ByteCodeName(byteCode(tool.raw)),
                            !.parameter = parameter(tool.raw)]
    /\ UNCHANGED vm

NextWord ==
    \/ writeWord
    \/ readWord

SpecWord == InitWord /\ [][NextWord]_vars


-----------------------------------------------------------------------------
(* The compiled-code table: load, generateAllCode, setJitAddress *)

\* the function indices and entry points handed to setJitAddress
JitIndices == {0, 2, FunctionCount - 1}
JitValues == {"null", "stub"}

\* after load: compiledFunctions_ has capacity for every function and size 0
InitJit ==
    /\ build \in [rev : {1, 2, 3}, ndebug : BOOLEAN]
    /\ cfg \in {c \in [jit : BOOLEAN, passParam : BOOLEAN] : c.passParam => c.jit}
    /\ compiled = <<>>
    /\ sp = 0
    /\ mem = <<>>
    /\ pc = 0
    /\ frames = <<>>
    /\ status = "idle"
    /\ ret = NoRet
    /\ result = NoResult
    /\ runs = 0
    /\ last = NoLast
    /\ junk \in Garbage
    /\ tool = [kind |-> "jit", sets |-> 0, index |-> 0, value |-> "null"]

\* setJitAddress: compiledFunctions_[functionIndex] = value, with no check of
\* the index.  At or past size() the subscript is outside the vector: the
\* store goes to reserved storage that size() does not cover, or the library's
\* checked subscript ends the process.
setJitAddress(functionIndex, value) ==
    /\ status = "idle"
    /\ tool.kind = "jit"
    /\ tool.sets < MaxSets
    /\ IF functionIndex < Len(compiled)
       THEN /\ compiled' = [compiled EXCEPT ![functionIndex + 1] = value]
            /\ status' = status
       ELSE /\ compiled' = compiled
            /\ status' \in {status, "crashed"}
    /\ tool' = [kind |-> "jit", sets |-> tool.sets + 1, index |-> functionIndex,
                value |-> value]
    /\ UNCHANGED <<junk, build, cfg, sp, mem, pc, frames, ret, result, runs, last>>

NextJit ==
    \/ generateAllCode
    \/ \E functionIndex \in JitIndices, value \in JitValues :
          setJitAddress(functionIndex, value)

SpecJit == InitJit /\ [][NextJit]_vars

-----------------------------------------------------------------------------
(* The Instruction field setters *)

\* the opcodes and immediates the setters are given
SetByteCodes == {0, 1, 19, 36, 128, 255}
SetImmediates == {-8388608, -1, 0, 1, 8388607}

\* a parameter setter that keeps nothing of the word
setParameterOnly(raw, p) == [top |-> 0, low |-> MaskParameter(p)]

\* Instruction::byteCode(bc): (RawByteCode(bc) << BYTECODE_SHIFT) | (raw_ & PARAMETER_MASK)
setByteCode(raw, bc) == [top |-> bc % 256, low |-> MaskParameter(raw.low)]

\* Instruction::parameter(p): (raw_ & BYTECODE_MASK) | (p & PARAMETER_MASK)
setParameter(raw, p) == [top |-> raw.top, low |-> MaskParameter(p)]

\* an Instruction(bc, p) for every opcode byte and immediate
InitSetters ==
    /\ IdleVm
    /\ \E bc \in 0 .. 255, p \in Immediates :
          tool = [kind |-> "built", which |-> "none", arg |-> 0,
                  before |-> RawInstruction(bc, p), raw |-> RawInstruction(bc, p)]

\* instruction.byteCode(bc)
callSetByteCode(bc) ==
    /\ tool.kind = "built"
    /\ tool' = [kind |-> "set", which |-> "byteCode", arg |-> bc,
                before |-> tool.raw, raw |-> setByteCode(tool.raw, bc)]
    /\ UNCHANGED vm

\* instruction.parameter(p)
callSetParameter(p) ==
    /\ tool.kind = "built"
    /\ tool' = [kind |-> "set", which |-> "parameter", arg |-> p,
                before |-> tool.raw, raw |-> setParameter(tool.raw, p)]
    /\ UNCHANGED vm

NextSetters ==
    \/ \E bc \in SetByteCodes : callSetByteCode(bc)
    \/ \E p \in SetImmediates : callSetParameter(p)

SpecSetters == InitSetters /\ [][NextSetters]_vars
----------------------------------------------------------------------------
(* Claims *)

\* the innermost activation has just been entered: by run, or by a FUNCTION_CALL
EnteredByRun == status = "running" /\ frames # <<>> /\ ~ret.has /\ last.op = "run"

EnteredByCall == status = "running" /\ frames # <<>> /\ ~ret.has /\ last.op = "FUNCTION_CALL"

\* C1: when an interpreted callee has executed FUNCTION_RETURN and its caller
\* goes on, the caller's stack pointer is the callee's args_base (the stack
\* pointer on entry less the callee's nargs) plus one: the pushed result.
C1_CallLeavesOneResult ==
    [][(status = "running" /\ frames # <<>> /\ ret.has /\ ret.how = "return"
            /\ status' = "running")
        => sp' = (ret.entry - getFunction(ret.fn).nargs) + 1]_vars

\* callinc has called inc(4), which has one argument and one local, and holds 5
C1_Witness ==
    /\ status = "running"
    /\ ~cfg.jit
    /\ last.op = "push_result"
    /\ last.fn = 2
    /\ sp = 3
    /\ Read(mem, sp - 1) = 5

\* C2: FUNCTION_RETURN hands the caller the value at stack_pointer - 1, sets
\* the stack pointer to args_base and ends the activation there and then.
C2_ReturnValueIsTopOfStack ==
    [][(Dispatches("FUNCTION_RETURN") /\ InStack(sp - 1))
        => /\ ret'.has
           /\ ret'.v = Read(mem, sp - 1)
           /\ sp' = Top.args
           /\ mem' = mem
           /\ frames' = SubSeq(frames, 1, Len(frames) - 1)]_vars

\* inc(4) has returned its 5 to callinc and the stack is back at inc's args
C2_Witness ==
    /\ status = "running"
    /\ ret.has
    /\ ret.how = "return"
    /\ ret.fn = 1
    /\ ret.v = 5
    /\ sp = ret.args
    /\ Len(frames) = 1

\* C3: whenever run has handed a value or a fatal error to the embedder, the
\* execution context is reset: stack pointer at the base, program counter 0.
C3_RunResetsOnEveryExit ==
    (status = "idle" /\ result.kind \in {"value", "runtime_error"})
        => (sp = 0 /\ pc = 0)

\* C4: after run has raised BadFunctionCall the operand stack is at its base.
C4_BadCallLeavesStackAtBase ==
    (status = "idle" /\ result.kind = "BadFunctionCall") => sp = 0

\* C5: on entry to every function invocation its nregs locals all read zero
\* (stated of interpretFunction and interpret, the second and third revisions).
C5_LocalsZeroOnEntry ==
    (build.rev >= 2 /\ (EnteredByRun \/ EnteredByCall))
        => \A k \in Top.entry .. (Top.entry + getFunction(Top.fn).nregs - 1) :
              InStack(k) => Read(mem, k) = 0

\* C6: at every instruction boundary inside a function the stack pointer is
\* within [args_base, stack_base + capacity] (stated of the second and third
\* revisions, whose push, pop and interpretFunction it is about).
C6_StackPointerInBounds ==
    (build.rev >= 2 /\ status = "running" /\ frames # <<>> /\ ~ret.has)
        => (Top.args <= sp /\ sp <= Capacity)

\* C7: when run enters the target function, args_base is inside the operand
\* stack and the nargs cells from args_base hold the caller's arguments.
C7_RunArgsAddressable ==
    EnteredByRun
        => /\ Top.args >= 0
           /\ \A k \in 0 .. (Len(last.usr) - 1) :
                 Read(mem, Top.args + k) = last.usr[Len(last.usr) - k]

\* left OP right, for the comparison of each JMP_EQ_* opcode
Holds(bc, left, right) ==
    \/ bc \in {"JMP_EQ_EQ", "JMP_EQ_GE", "JMP_EQ_LE"} /\ left = right
    \/ bc \in {"JMP_EQ_NEQ", "JMP_EQ_GT", "JMP_EQ_GE"} /\ left > right
    \/ bc \in {"JMP_EQ_NEQ", "JMP_EQ_LT", "JMP_EQ_LE"} /\ left < right

\* the previous step executed, and the loop went on in the same activation
Stepped(ops) == status = "running" /\ frames # <<>> /\ last.op \in ops

\* C8: after JMP d at instruction index i the next instruction is i + d + 1;
\* after JMP_EQ_* d it is i + d + 1 when the predicate holds and i + 1 when not.
C8_BranchOffsetConvention ==
    /\ Stepped({"JMP"}) => Top.ip = last.ip + last.p + 1
    /\ (Stepped(JmpEqOps) /\ InStack(last.sp - 2))
          => Top.ip = IF Holds(last.op, Read(mem, last.sp - 2), Read(mem, last.sp - 1))
                      THEN last.ip + last.p + 1
                      ELSE last.ip + 1

\* sumto has taken its backward JMP -13 from index 12 to index 0
C8_Witness ==
    /\ Stepped({"JMP"})
    /\ last.fn = 3
    /\ last.ip = 12
    /\ last.p < 0
    /\ Top.ip = 0

\* C9: every JMP_EQ_* pops two operands whether or not it branches, and
\* branches iff left OP right, right being the former top of the stack.
C9_CompareConsumesBoth ==
    (Stepped(JmpEqOps) /\ InStack(last.sp - 2))
        => /\ sp = last.sp - 2
           /\ last.p # 0 =>
                ((Top.ip = last.ip + last.p + 1)
                    <=> Holds(last.op, Read(mem, last.sp - 2), Read(mem, last.sp - 1)))

\* cmp6(1, 2): JMP_EQ_LT has branched on 1 < 2, with both operands gone
C9_Witness ==
    /\ Stepped({"JMP_EQ_LT"})
    /\ last.fn = 13
    /\ Read(mem, last.sp - 2) = 1
    /\ Read(mem, last.sp - 1) = 2
    /\ sp = last.sp - 2
    /\ Top.ip = last.ip + 5

\* cmp6(2, 1): JMP_EQ_LT has fallen through on 2 < 1, with both operands gone
C9_WitnessFallThrough ==
    /\ Stepped({"JMP_EQ_LT"})
    /\ last.fn = 13
    /\ Read(mem, last.sp - 2) = 2
    /\ Read(mem, last.sp - 1) = 1
    /\ sp = last.sp - 2
    /\ Top.ip = last.ip + 1

\* C10: DIV with a right operand of 0 pushes no quotient; the run is aborted
\* with an error.
C10_DivByZeroIsFatal ==
    (build.rev = 3 /\ last.op = "DIV" /\ InStack(last.sp - 1) /\ Read(mem, last.sp - 1) = 0)
        => (status = "idle" /\ result.kind = "runtime_error")


\* the arithmetic opcodes, and the operands one of them is about to pop
ArithOps == {"ADD", "SUB", "MUL"}

AboutToCompute(bc) == Dispatches(bc) /\ InStack(sp - 2) /\ InStack(sp - 1)

\* C11: for operands a (pushed first) and b (pushed second) whose exact result
\* is a Value integer, ADD pushes a + b, SUB pushes a - b and MUL pushes a * b,
\* the one result replacing the two operands.
C11_ArithmeticIsExact ==
    [][\A bc \in ArithOps :
          (AboutToCompute(bc)
              /\ InValueRange(Exact(bc, Read(mem, sp - 2), Read(mem, sp - 1))))
          => /\ status' = "running"
             /\ sp' = sp - 1
             /\ ToWide(Read(mem', sp - 2)) = Exact(bc, Read(mem, sp - 2), Read(mem, sp - 1))]_vars

\* C12: when the exact result of ADD, SUB or MUL is outside the Value integer
\* range, the run goes on and the pushed result is the exact result reduced
\* modulo 2^48 into the signed range.
C12_ArithmeticWraps ==
    [][\A bc \in ArithOps :
          (AboutToCompute(bc)
              /\ ~InValueRange(Exact(bc, Read(mem, sp - 2), Read(mem, sp - 1))))
          => /\ status' = "running"
             /\ sp' = sp - 1
             /\ ToWide(Read(mem', sp - 2))
                  = WrapToValue(Exact(bc, Read(mem, sp - 2), Read(mem, sp - 1)))]_vars

\* C13: when the loop of a function reaches the END_SECTION sentinel, the run
\* ends in a fatal error and no value goes back to the caller (stated of
\* interpretFunction and interpret, the second and third revisions).
C13_EndSectionIsFatal ==
    (build.rev >= 2 /\ last.op = "END_SECTION")
        => (~ret.has /\ status = "idle" /\ result.kind = "runtime_error")

\* C14: an instruction whose opcode byte is not a defined opcode ends the run
\* in a fatal error when the loop decodes it; the loop never goes on past it
\* (stated of interpretFunction and interpret, the second and third revisions).
C14_UnknownOpcodeIsFatal ==
    (build.rev >= 2 /\ last.op \notin ByteCodes \cup {"none", "run", "push_result", "fault"})
        => status # "running"

\* C15: DUPLICATE leaves the stack one slot deeper, the new top a copy of the
\* previous top, and every cell below as it was.
C15_DuplicateCopiesTop ==
    [][(Dispatches("DUPLICATE") /\ InStack(sp - 1) /\ InStack(sp))
        => /\ sp' = sp + 1
           /\ mem' = Write(mem, sp, Read(mem, sp - 1))]_vars

\* C16: NOT replaces the integer v on top of the stack by 1 if v = 0 and by 0
\* otherwise, negative v included; the stack depth does not change.
C16_NotInvertsZero ==
    [][(Dispatches("NOT") /\ InStack(sp - 1))
        => /\ sp' = sp
           /\ status' = "running"
           /\ mem' = Write(mem, sp - 1, IF Read(mem, sp - 1) = 0 THEN 1 ELSE 0)]_vars

\* ops: NOT has turned the -3 at the bottom of the frame into 0
C16_Witness ==
    /\ Stepped({"NOT"})
    /\ last.fn = 14
    /\ last.ip = 1
    /\ sp = last.sp
    /\ Read(mem, sp - 1) = 0

\* ops: the second NOT has turned that 0 into 1
C16_WitnessZero ==
    /\ Stepped({"NOT"})
    /\ last.fn = 14
    /\ last.ip = 2
    /\ sp = last.sp
    /\ Read(mem, sp - 1) = 1

\* function i is being called, by run or by a FUNCTION_CALL instruction
Calling(i) ==
    \/ Dispatches("FUNCTION_CALL") /\ Cur.p = i
    \/ status = "idle" /\ last'.op = "run" /\ last'.fn = i

\* the call has entered the interpreter for function i
Interpreted(i) ==
    /\ ~ret'.has
    /\ Len(frames') = Len(frames) + 1
    /\ frames'[Len(frames')].fn = i
    /\ frames'[Len(frames')].ip = 0

\* the call went to native code: no activation of the interpreter was added
WentNative(i) ==
    /\ Len(frames') <= Len(frames)
    /\ ret'.has => (ret'.how = "native" /\ ret'.fn = i)

\* C17: a call of function i enters the interpreter when the compiled-code
\* table has no entry for i (always, while the table is empty) and native code
\* when it has one; and f() = g(41), g(x) = x + 1, interpreted, returns 42.
C17_BridgeDispatchesOnTable ==
    /\ [][\A i \in 0 .. (FunctionCount - 1) :
            Calling(i) => IF getJitAddress(i) = "null"
                          THEN Interpreted(i)
                          ELSE WentNative(i)]_vars
    /\ []((frames = <<>> /\ ret.has /\ ret.fn = 17 /\ ret.how = "return" /\ compiled = <<>>)
            => ret.v = 42)

\* f() has returned 42 through the interpreter, on a VM configured for the
\* JIT that has generated no code yet
C17_Witness ==
    /\ cfg.jit
    /\ compiled = <<>>
    /\ frames = <<>>
    /\ ret.has
    /\ ret.fn = 17
    /\ ret.how = "return"
    /\ ret.v = 42

\* the stack pointer with which callFunction(i) is entered
CallerSp(i) ==
    IF status = "idle" THEN sp + getFunction(i).nargs ELSE sp

\* C18: under the register calling convention the bridge pops exactly nargs
\* Values and passes them positionally, first-pushed leftmost and last-pushed
\* rightmost; the native entry is called with the stack pointer at the
\* callee's args_base (stated of the second and third revisions).
C18_PassParamPopsArgsInOrder ==
    [][\A i \in 0 .. (FunctionCount - 1) :
          (build.rev >= 2 /\ cfg.passParam /\ Calling(i) /\ getJitAddress(i) # "null"
              /\ getFunction(i).nargs <= MaxJitArgs)
          => LET nargs == getFunction(i).nargs
                 args == CallerSp(i) - nargs
             IN /\ ret'.has
                /\ ret'.how = "native"
                /\ sp' = args
                /\ ret'.args = args
                /\ Len(ret'.params) = nargs
                /\ \A k \in 1 .. nargs : ret'.params[k] = Read(mem', args + k - 1)]_vars

\* div(2, 5) called natively: run pushed 5 and then 2, and the entry got (5, 2)
C18_Witness ==
    /\ build.rev >= 2
    /\ cfg.passParam
    /\ ret.has
    /\ ret.how = "native"
    /\ ret.fn = 9
    /\ ret.params = <<5, 2>>
    /\ Read(mem, 0) = 5
    /\ Read(mem, 1) = 2
    /\ sp = 0

\* C19: a call of a compiled function under the register calling convention
\* with nargs above the supported maximum is a fatal error: nothing is popped,
\* no native code runs and no result goes back to the caller.
C19_TooManyArgumentsIsFatal ==
    [][\A i \in 0 .. (FunctionCount - 1) :
          (cfg.passParam /\ Calling(i) /\ getJitAddress(i) # "null"
              /\ getFunction(i).nargs > MaxJitArgs)
          => /\ ~ret'.has
             /\ status' = "idle"
             /\ result'.kind = "runtime_error"
             /\ sp' = CallerSp(i)]_vars

\* C20: whichever way the callee of a FUNCTION_CALL ran (interpreted, native
\* with the parameters passed, native with the parameters on the stack), the
\* caller goes on with the callee's result pushed at the callee's args_base
\* and its stack pointer one above it (stated of the second and third
\* revisions, for nargs within the register convention's maximum).
C20_SamePushOnEveryPath ==
    [][(build.rev >= 2 /\ status = "running" /\ frames # <<>> /\ ret.has
            /\ status' = "running"
            /\ getFunction(ret.fn).nargs <= MaxJitArgs
            /\ InStack(ret.entry - getFunction(ret.fn).nargs))
        => LET args == ret.entry - getFunction(ret.fn).nargs
           IN /\ sp' = args + 1
              /\ Read(mem', args) = ret.v]_vars

\* C21: once generateAllCode has run, the compiled-code table has one entry
\* per function of the module, and nothing changes it afterwards, a further
\* generateAllCode included.
C21_CompiledTableIsFixed ==
    /\ [](compiled # <<>> => Len(compiled) = FunctionCount)
    /\ [][compiled # <<>> => compiled' = compiled]_vars

\* C22: for every opcode byte and every immediate p in [-2^23, 2^23), the
\* Instruction made of them gives back the opcode from byteCode() and p from
\* parameter(), an immediate with bit 23 set coming back negative.
C22_InstructionRoundTrips ==
    tool.kind = "decoded"
        => (tool.byteCode = tool.bc /\ tool.parameter = tool.p)

\* JMP_EQ_LT -13, 0x13fffff3, has been decoded back to (0x13, -13)
C22_Witness ==
    /\ tool.kind = "decoded"
    /\ tool.bc = 19
    /\ tool.p = -13
    /\ tool.raw.low = 16777203
    /\ tool.parameter = -13

\* the slot ids written to the object the final read is aimed at
ReadWrites == IF tool.r.operand.v = 1 THEN tool.w1 ELSE tool.w2

\* the value of the last write of slot id in the writes w (0 when there is none)
RECURSIVE LastWritten(_, _, _)
LastWritten(w, id, k) ==
    IF k = 0 THEN 0
    ELSE IF w[k] = id THEN WrittenValue(k, id)
    ELSE LastWritten(w, id, k - 1)

\* the script has run to its end without an error
ScriptDone ==
    /\ tool.kind = "objects"
    /\ tool.status = "running"
    /\ tool.ip > Len(tool.script)

\* C23: after POP_INTO_OBJECT s has stored v in object o, PUSH_FROM_OBJECT s on
\* o pushes v, whether the slot existed or was created by the write, and
\* writes of other slots of o in between do not change what is read.
C23_ObjectSlotRoundTrips ==
    ScriptDone
        => /\ tool.pushed
           /\ ObjTop = IntValue(LastWritten(ReadWrites, tool.r.id, Len(ReadWrites)))

\* slot 1 written (and created), then slot 2, then slot 1 read back
C23_Witness ==
    /\ ScriptDone
    /\ tool.w1 = <<1, 2>>
    /\ tool.r = [operand |-> PtrValue(1), id |-> 1]
    /\ ObjTop = IntValue(11)

\* the slot ids of w in the order their slots are created: first occurrences
RECURSIVE Created(_, _)
Created(w, k) ==
    IF k = 0 THEN <<>>
    ELSE IF \E j \in 1 .. k - 1 : w[j] = w[k] THEN Created(w, k - 1)
    ELSE Append(Created(w, k - 1), w[k])

\* every write of the script has been executed
WritesDone ==
    /\ tool.kind = "objects"
    /\ tool.status = "running"
    /\ tool.ip > 4 + 3 * (Len(tool.w1) + Len(tool.w2))

\* C24: two fresh objects that went through the same sequence of
\* slot-creating writes wear the identical map.
C24_SameWritesSameMap ==
    (WritesDone /\ Created(tool.w1, Len(tool.w1)) = Created(tool.w2, Len(tool.w2)))
        => tool.heap[1].map = tool.heap[2].map

\* both objects created slot 1 and then slot 2, one of them rewriting slot 1
C24_Witness ==
    /\ WritesDone
    /\ tool.w1 = <<1, 2>>
    /\ tool.w2 = <<1, 1, 2>>
    /\ tool.heap[1].map = tool.heap[2].map
    /\ tool.heap[1].map # 0
    /\ Len(tool.maps) = 2

\* C25: POP_INTO_OBJECT id takes the value from the top of the stack and the
\* object from beneath it ( obj val -- ), consumes both and stores the value
\* in slot id of the object.
C25_PopIntoObjectTakesObjVal ==
    [][(AtOp("POP_INTO_OBJECT") /\ Len(tool.stack) >= 2
            /\ ~isPtr(ObjTop) /\ isPtr(ObjPop(tool.stack)[Len(tool.stack) - 1]))
        => LET object == ObjPop(tool.stack)[Len(tool.stack) - 1].v
           IN /\ tool'.status = "running"
              /\ tool'.stack = ObjPop(ObjPop(tool.stack))
              /\ lookup(tool'.maps, tool'.heap[object].map, ObjParam) # 0
              /\ getValue(tool'.heap[object],
                          lookup(tool'.maps, tool'.heap[object].map, ObjParam)) = ObjTop]_vars

\* the object the final read pops holds no slot of the id read
ReadsAbsentSlot ==
    /\ isPtr(tool.r.operand)
    /\ \A k \in 1 .. Len(ReadWrites) : ReadWrites[k] # tool.r.id

\* C26: PUSH_FROM_OBJECT is a fatal error, pushing nothing, when its operand
\* is not an object reference and when the object has no slot of that id;
\* POP_INTO_OBJECT on an object without the slot creates it.
C26_AbsentSlotReadFailsWriteCreates ==
    /\ [][(AtOp("PUSH_FROM_OBJECT") /\ (~isPtr(tool.r.operand) \/ ReadsAbsentSlot))
            => /\ tool'.status = "error"
               /\ tool'.stack = ObjPop(tool.stack)]_vars
    /\ [][(AtOp("POP_INTO_OBJECT") /\ Len(tool.stack) >= 2 /\ isPtr(ObjTop)
            /\ lookup(tool.maps, tool.heap[ObjTop.v].map, ObjParam) = 0)
            => /\ tool'.status = "running"
               /\ lookup(tool'.maps, tool'.heap[ObjTop.v].map, ObjParam)
                    = Len(tool.heap[ObjTop.v].slots) + 1
               /\ Len(tool'.heap[ObjTop.v].slots) = Len(tool.heap[ObjTop.v].slots) + 1]_vars

\* slot 1 of the first object was created by a write, and reading its slot 2
\* has ended the run with nothing pushed
C26_Witness ==
    /\ tool.kind = "objects"
    /\ tool.status = "error"
    /\ tool.script[tool.ip].op = "PUSH_FROM_OBJECT"
    /\ tool.w1 = <<1>>
    /\ tool.r = [operand |-> PtrValue(1), id |-> 2]
    /\ Len(tool.heap[1].slots) = 1
    /\ tool.stack = <<>>

\* an integer operand has ended the run in PUSH_FROM_OBJECT
C26_WitnessNotAnObject ==
    /\ tool.kind = "objects"
    /\ tool.status = "error"
    /\ tool.script[tool.ip].op = "PUSH_FROM_OBJECT"
    /\ tool.r.operand = IntValue(5)
    /\ tool.stack = <<>>

\* C27: print_number and print_string each pop one value and push the
\* integer 0: PRIMITIVE_CALL leaves the stack depth as it was, with 0 on top
\* and the cells beneath untouched, and the DROP after it brings the depth
\* back to what it was before the argument was pushed.
C27_PrintPopsOneAndPushesZero ==
    /\ [][(Dispatches("PRIMITIVE_CALL")
            /\ getPrimitive(Cur.p) \in {"print_number", "print_string"})
          => /\ sp' = sp
             /\ Read(mem', sp - 1) = 0
             /\ \A k \in 0 .. sp - 2 : Read(mem', k) = Read(mem, k)]_vars
    /\ []((Running /\ Top.fn = 18 /\ last.op = "DROP") => sp = Top.entry)

\* the first revision has printed the number 6: 0 took its place
C27_Witness ==
    /\ build.rev = 1
    /\ Running
    /\ last.op = "PRIMITIVE_CALL"
    /\ getPrimitive(last.p) = "print_number"
    /\ sp = last.sp
    /\ Read(mem, sp - 1) = 0

\* the sum 1 + ... + n
Triangle(n) == (n * (n + 1)) \div 2

\* C28: in the third revision sumto(n), whose zeroed locals i and s are
\* advanced under a JMP_EQ_LT and a backward JMP, comes back to the embedder
\* for every n of 0 .. MaxSum with the result n(n+1)/2, and its
\* FUNCTION_RETURN leaves the stack pointer at args.
C28_SumtoTerminatesWithSum ==
    /\ \A n \in 0 .. MaxSum :
          (build.rev = 3 /\ last.op = "run" /\ last.fn = 3 /\ last.usr = <<n>>)
              ~> (status = "idle" /\ result = [kind |-> "value", v |-> Triangle(n)])
    /\ [][(build.rev = 3 /\ Dispatches("FUNCTION_RETURN") /\ Top.fn = 3)
            => (sp' = Top.args /\ ret'.v = Triangle(Read(mem, Top.args)))]_vars

\* sumto(10) has returned 55
C28_Witness ==
    /\ build.rev = 3
    /\ status = "running"
    /\ ret.has
    /\ ret.fn = 3
    /\ ret.v = 55
    /\ Read(mem, 0) = 10
    /\ sp = 0

\* the VM exists, or has existed, with its construction complete
Constructed ==
    /\ tool.vm \in {"alive", "gone"}
    /\ build.rev = 1 => tool.initialized

\* C29: the JIT backend is acquired exactly when the VM is constructed with
\* jit enabled and released exactly once when that VM is destroyed; when the
\* backend fails to initialise there is no VM afterwards and no release; with
\* jit disabled the backend is neither acquired nor released.
C29_JitAcquiredAndReleasedOnce ==
    /\ Constructed => tool.acquired = (IF cfg.jit THEN 1 ELSE 0)
    /\ tool.released = (IF cfg.jit /\ Constructed /\ tool.vm = "gone" THEN 1 ELSE 0)
    /\ tool.failed => (tool.vm = "absent" /\ tool.released = 0)
    /\ ~cfg.jit => (tool.acquired = 0 /\ tool.released = 0)

\* what the second and third revisions' constructor and destructor give
C29_ScopedFromSecondRevision == build.rev >= 2 => C29_JitAcquiredAndReleasedOnce

\* C30: a JMP or JMP_EQ_* emitted at index i for a label placed at index t
\* gets the operand t - i - 1, and when the interpreter takes the branch the
\* next instruction it executes is the one at index t, before or behind i.
C30_ResolvedJumpLandsOnLabel ==
    /\ (tool.kind = "jump" /\ tool.stage # "compiled")
          => tool.operand = tool.target - tool.index - 1
    /\ (tool.kind = "jump" /\ tool.stage = "executed")
          => tool.next = (IF tool.taken THEN tool.target ELSE tool.index + 1)

\* a JMP_EQ_LT at index 5 has branched back to its label at index 1
C30_Witness ==
    /\ tool.kind = "jump"
    /\ tool.stage = "executed"
    /\ tool.operator = "JMP_EQ_LT"
    /\ tool.index = 5
    /\ tool.target = 1
    /\ tool.operand = -5
    /\ tool.raw.low = 16777211
    /\ tool.taken
    /\ tool.next = 1

\* a JMP at index 2 has gone forward to its label at index 6
C30_WitnessForward ==
    /\ tool.kind = "jump"
    /\ tool.stage = "executed"
    /\ tool.operator = "JMP"
    /\ tool.index = 2
    /\ tool.target = 6
    /\ tool.next = 6

\* C31: every declared variable of a compiled function resolves to its own
\* offset: parameter a to offset a and the local with register index r, the
\* first one (r = 0) included, to offset nargs + r, as the operand written
\* for a PUSH_FROM_VAR of it shows.
C31_VariablesResolveDistinct ==
    (tool.kind = "function" /\ tool.stage # "parsed")
        => /\ \A a \in 1 .. Len(tool.args) :
                output("PUSH_FROM_VAR",
                       localIndex(tool.args, tool.regs, tool.args[a])).low = a - 1
           /\ \A r \in 1 .. Len(tool.regs) :
                output("PUSH_FROM_VAR",
                       localIndex(tool.args, tool.regs, tool.regs[r])).low
                    = Len(tool.args) + r - 1

\* the locals after the first one do get offset nargs + r
C31_LaterLocalsResolve ==
    (tool.kind = "function" /\ tool.stage # "parsed")
        => \A r \in 2 .. Len(tool.regs) :
              localIndex(tool.args, tool.regs, tool.regs[r]) = << Len(tool.args) + r - 1 >>

\* C32: every emitted body ends with FUNCTION_RETURN and then END_SECTION,
\* the word 0 is written only as its last instruction, and every instruction
\* of it has an operator of the opcode table.
C32_BodyEndsWithReturnAndEnd ==
    (tool.kind = "function" /\ tool.stage = "written")
        => LET n == Len(tool.words) IN
           /\ n >= 2
           /\ tool.words[n] = RawInstruction(0, 0)
           /\ byteCode(tool.words[n - 1]) = 2
           /\ \A i \in 1 .. n - 1 : tool.words[i] # RawInstruction(0, 0)
           /\ \A i \in 1 .. n : tool.instructions[i].operator \in DOMAIN OperatorCode

\* the bodies without a prefix update are as C32 says
C32_HoldsWithoutPrefixUpdate ==
    (\A k \in 1 .. Len(tool.body) :
        tool.body[k].type = "UpdateExpression" => ~tool.body[k].prefix)
        => C32_BodyEndsWithReturnAndEnd

\* C33: for every operator of the compiler's opcode table and every operand
\* in [-2^23, 2^23), the word Instruction.output writes decodes in the VM to
\* the ByteCode of the same name and value and to the same operand.
C33_CompilerWordDecodesInVm ==
    (tool.kind = "word" /\ tool.stage = "read")
        => /\ tool.name = tool.operator
           /\ byteCode(tool.raw) = OperatorCode[tool.operator]
           /\ tool.parameter = tool.operand

\* every operator but STR_JMP_NEQ decodes as C33 says
C33_HoldsButForStrJmpNeq ==
    tool.operator # "STR_JMP_NEQ" => C33_CompilerWordDecodesInVm

\* C34: run (second and third revisions) pushes the user arguments last to
\* first, so that in the function entered args[k] is usrArgs[nargs - 1 - k],
\* and under the register convention the parameters popped off the stack
\* are those arguments in reverse, usrArgs[0] being the rightmost one.
C34_RunPushesArgsReversed ==
    (build.rev >= 2 /\ status = "running" /\ last.op = "run")
        => /\ (frames # <<>> /\ ~ret.has)
                => \A k \in 0 .. (getFunction(Top.fn).nargs - 1) :
                      Read(mem, Top.args + k) = last.usr[getFunction(Top.fn).nargs - k]
           /\ (ret.has /\ ret.how = "native" /\ cfg.passParam)
                => /\ Len(ret.params) = Len(last.usr)
                   /\ \A j \in 1 .. Len(ret.params) :
                         ret.params[j] = last.usr[Len(last.usr) - j + 1]

\* Cmp6 was run on (1, 2) and its compiled code got p1 = 2 and p2 = 1
C34_Witness ==
    /\ build.rev >= 2
    /\ status = "running"
    /\ last.op = "run"
    /\ last.usr = <<1, 2>>
    /\ ret.has
    /\ ret.how = "native"
    /\ ret.params = <<2, 1>>

\* Cmp6 was entered by the interpreter with args[0] = 2 and args[1] = 1
C34_WitnessInterpreted ==
    /\ build.rev >= 2
    /\ status = "running"
    /\ last.op = "run"
    /\ last.usr = <<1, 2>>
    /\ frames # <<>>
    /\ Read(mem, Top.args) = 2
    /\ Read(mem, Top.args + 1) = 1

\* C35: a run's result does not depend on the runs before it: readlocal(),
\* which returns its only local without writing it, returns at every run
\* what it returns at the first run of a fresh machine, 0 (second and third
\* revisions, interpreted).
C35_RunIndependentOfHistory ==
    (build.rev >= 2 /\ status = "running" /\ frames = <<>> /\ ret.has
        /\ ret.how = "return" /\ ret.fn = 4)
        => ret.v = 0

\* the first run of a fresh machine: readlocal() does return 0
C35_FreshRunReturnsZero ==
    (build.rev >= 2 /\ status = "running" /\ frames = <<>> /\ ret.has
        /\ ret.how = "return" /\ ret.fn = 4 /\ runs = 1)
        => ret.v = 0

\* readlocal() has returned from its first run
C35_FreshRunWitness ==
    /\ build.rev >= 2
    /\ status = "running"
    /\ frames = <<>>
    /\ ret.has
    /\ ret.how = "return"
    /\ ret.fn = 4
    /\ runs = 1

\* under() has returned to callunder(), which the embedder ran
BackInCallunder ==
    /\ build.rev = 3
    /\ status = "running"
    /\ Len(frames) = 1
    /\ Top.fn = 6
    /\ Top.ip = 1
    /\ ret.has
    /\ ret.how = "return"
    /\ ret.fn = 5

\* C36: a nested call is framed (third revision): when under(), which has no
\* PUSH_FROM_VAR or POP_INTO_VAR at all, has run to completion, the slot of
\* callunder() just below under()'s args still holds the 9 callunder() pushed,
\* callunder()'s own args is what run gave it, and callunder() goes on at the
\* instruction after its FUNCTION_CALL.
C36_NestedCallIsFramed ==
    /\ BackInCallunder
          => /\ Read(mem, ret.args - 1) = 9
             /\ Top.args = Top.entry
             /\ ret.args = Top.entry + 1
    /\ (build.rev = 3 /\ status = "running" /\ Len(frames) = 1 /\ Top.fn = 6
          /\ last.op = "push_result")
          => Top.ip = 2

\* what of C36 holds: the caller's args and where it resumes
C36_CallerResumes ==
    /\ BackInCallunder => (Top.args = Top.entry /\ ret.args = Top.entry + 1)
    /\ (build.rev = 3 /\ status = "running" /\ Len(frames) = 1 /\ Top.fn = 6
          /\ last.op = "push_result")
          => Top.ip = 2

\* callunder() has resumed after under() returned
C36_ResumedWitness ==
    /\ build.rev = 3
    /\ status = "running"
    /\ Len(frames) = 1
    /\ Top.fn = 6
    /\ last.op = "push_result"

\* a call of setJitAddress has just been made
JitAddressSet ==
    /\ tool.kind = "jit"
    /\ tool'.kind = "jit"
    /\ tool'.sets = tool.sets + 1

\* C37: setJitAddress(i, f) followed by getJitAddress(i) returns f, whether
\* or not generateAllCode has been called, and no other entry of the
\* compiled-code table changes.
C37_SetThenGetJitAddress ==
    [][JitAddressSet
          => /\ getJitAddress(tool.index)' = tool'.value
             /\ Len(compiled') = Len(compiled)
             /\ \A k \in 1 .. Len(compiled) :
                   k # tool'.index + 1 => compiled'[k] = compiled[k]]_vars

\* what of C37 holds: once generateAllCode has filled the table
C37_HoldsAfterGenerateAllCode ==
    [][(JitAddressSet /\ tool'.index < Len(compiled))
          => /\ getJitAddress(tool.index)' = tool'.value
             /\ Len(compiled') = Len(compiled)
             /\ \A k \in 1 .. Len(compiled) :
                   k # tool'.index + 1 => compiled'[k] = compiled[k]]_vars

\* function 2, whose code generation failed, was given an entry point
C37_FilledTableWitness ==
    /\ tool.kind = "jit"
    /\ tool.sets = 1
    /\ tool.index = 2
    /\ tool.value = "stub"
    /\ Len(compiled) = FunctionCount
    /\ getJitAddress(2) = "stub"
    /\ getJitAddress(0) = "native"

\* C38: the Instruction field setters are independent: parameter(p) leaves
\* byteCode() as it was and byteCode(bc) leaves parameter() as it was, for
\* every opcode byte 0..255 and immediate in [-2^23, 2^23); each setter does
\* set its own field.
C38_SettersIndependent ==
    tool.kind = "set"
        => /\ tool.which = "parameter"
                => /\ byteCode(tool.raw) = byteCode(tool.before)
                   /\ parameter(tool.raw) = tool.arg
           /\ tool.which = "byteCode"
                => /\ parameter(tool.raw) = parameter(tool.before)
                   /\ byteCode(tool.raw) = tool.arg

\* Instruction(255, -1).parameter(8388607) is still of opcode 255
C38_Witness ==
    /\ tool.kind = "set"
    /\ tool.which = "parameter"
    /\ byteCode(tool.before) = 255
    /\ parameter(tool.before) = -1
    /\ tool.arg = 8388607
    /\ byteCode(tool.raw) = 255
    /\ parameter(tool.raw) = 8388607

\* Instruction(19, -8388608).byteCode(0) still has the parameter -8388608
C38_WitnessByteCode ==
    /\ tool.kind = "set"
    /\ tool.which = "byteCode"
    /\ byteCode(tool.before) = 19
    /\ parameter(tool.before) = -8388608
    /\ tool.arg = 0
    /\ byteCode(tool.raw) = 0
    /\ parameter(tool.raw) = -8388608
====
